---- MODULE Spec2Model ----
(***************************************************************************)
(* instrumentsToPprof: the three text-to-tree parsers (sample, Instruments *)
(* deep copy, collapsed stacks) and the tree-to-pprof converter.           *)
(*                                                                         *)
(* Go pointers are indices into heaps: frames, threads and processes are   *)
(* sequences of records and 0 is nil.  A nil dereference or an index out   *)
(* of range is a Go panic: pc = "panic".                                   *)
(***************************************************************************)
EXTENDS Integers, Sequences, FiniteSets, TLC

VARIABLES
  pc,             \* where the running function is
  err,            \* the error it returned ("" is nil)
  p,              \* TimeProfile.Processes: process pointers
  processes,      \* heap of Process
  threads,        \* heap of Thread
  frames,         \* heap of Frame
  currentProcess, \* local of the deep-copy parser
  currentThread,  \* local of the parsers
  lastFrame,      \* local of the parsers
  sampleRate,     \* local of ParseSample
  nread,          \* lines read in the current phase
  origWeight,     \* history: per frame, the weight its line stated
  warnings,       \* what was logged
  lines,          \* the lines a parser object holds (d.lines)
  cfg,            \* the settings TimeProfileToPprof was called with
  pprof,          \* what TimeProfileToPprof returned
  run             \* main: its flags, its files and how it ended

vars == <<pc, err, p, processes, threads, frames, currentProcess,
          currentThread, lastFrame, sampleRate, nread, origWeight, warnings,
          lines, cfg, pprof, run>>

convVars == <<cfg, pprof, run>>

NoConfig == [set |-> FALSE]
NoProfile == [set |-> FALSE]
NoRun == [set |-> FALSE]

(***************************************************************************)
(* Bounds                                                                  *)
(***************************************************************************)
MaxHeaderLines == 3
MaxCallLines == 5

Hits == 0..2
SymbolNames == {"f"}

(***************************************************************************)
(* The tree model                                                          *)
(***************************************************************************)
Frame(name, weight, depth) ==
  [Parent |-> 0, Children |-> <<>>, SelfWeightNs |-> weight,
   SymbolName |-> name, Depth |-> depth]

Thread(name, tid) == [Name |-> name, Tid |-> tid, Frames |-> <<>>]

Process(name, pid) == [Name |-> name, Pid |-> pid, Threads |-> <<>>]

\* The frames of the subtree of f, f first, children in stored order.
RECURSIVE PreOrder(_, _)
RECURSIVE PreOrderAll(_, _, _)
PreOrder(fr, f) == <<f>> \o PreOrderAll(fr, fr[f].Children, 1)

PreOrderAll(fr, fs, i) ==
  IF i > Len(fs) THEN <<>>
  ELSE PreOrder(fr, fs[i]) \o PreOrderAll(fr, fs, i + 1)

(***************************************************************************)
(* Sample parser                                                           *)
(***************************************************************************)
\* A call-graph line after TrimSpace, as functionRe splits it: the marker
\* prefix, the hit count and the symbol; a line functionRe does not match.
CallPrefixes == {"", "+ ", "+   ", "+   :", "+   : ", "+   : ! "}

CallLines ==
  [kind : {"call"}, match : {TRUE}, prefix : CallPrefixes, hits : Hits, name : SymbolNames]
  \cup {[kind |-> "call", match |-> FALSE, prefix |-> "", hits |-> 0, name |-> "???"]}

sampleParseCallLine(line) ==
  IF ~line.match THEN [err |-> "Failed to parse function line", frame |-> Frame("", 0, 0)]
  ELSE [err |-> "", frame |-> Frame(line.name, line.hits, Len(line.prefix) \div 2)]

\* The header lines ParseSample looks at, by their prefix.
AnalysisLines ==
  [kind : {"analysis"}, period : {"1", "10"}, unit : {"millisecond", "milliseconds"}]

VersionLines ==
  [kind : {"version"}, colons : {1, 2}, value : {"7", "6", "x"}]

ProcessLines ==
  [kind : {"process"}, colons : {1, 2}, match : BOOLEAN, name : {"proc"}, pid : {56690}]

HeaderLines ==
  AnalysisLines \cup VersionLines \cup ProcessLines
    \cup {[kind |-> "callgraph"], [kind |-> "other"]}

parseSampleRate(line) ==
  [rate |-> 1000000,
   warn |-> IF line.period # "1" /\ line.unit # "millisecond"
            THEN {[kind |-> "period", period |-> line.period, unit |-> line.unit]}
            ELSE {}]

parseProcess(line) ==
  IF line.colons # 1 THEN [err |-> "Not valid process line", proc |-> Process("", 0)]
  ELSE IF ~line.match THEN [err |-> "Error parsing process and pid", proc |-> Process("", 0)]
  ELSE [err |-> "", proc |-> Process(line.name, line.pid)]

Atoi(s) == CASE s = "7" -> [err |-> "", n |-> 7]
             [] s = "6" -> [err |-> "", n |-> 6]
             [] OTHER -> [err |-> "invalid syntax", n |-> 0]

\* The Report Version check of the header loop: "" when the line passes.
checkReportVersion(line) ==
  IF line.colons # 1 THEN "Could not parse report version line"
  ELSE IF Atoi(line.value).err # "" THEN "Error parsing report version"
  ELSE IF Atoi(line.value).n # 7 THEN "Report Version was not 7"
  ELSE ""

RECURSIVE fixChildren(_, _, _)
fixSelfWeight(fr, f) == fixChildren(fr, f, 1)

\* The loop of fixSelfWeight over frame.Children, from the i-th child on.
fixChildren(fr, f, i) ==
  IF i > Len(fr[f].Children) THEN [frames |-> fr, err |-> ""]
  ELSE LET child == fr[f].Children[i]
           fr1 == [fr EXCEPT ![f].SelfWeightNs = @ - fr[child].SelfWeightNs]
       IN IF fr1[f].SelfWeightNs < 0
          THEN [frames |-> fr1, err |-> "Frame had negative weight"]
          ELSE fixChildren(fixSelfWeight(fr1, child).frames, f, i + 1)

\* The root frames of every thread of process proc, in the order of the
\* "Fix weights" loops.
RECURSIVE RootsFrom(_, _, _)
RootsFrom(ths, tids, i) ==
  IF i > Len(tids) THEN <<>>
  ELSE ths[tids[i]].Frames \o RootsFrom(ths, tids, i + 1)

RECURSIVE fixRoots(_, _, _)
fixRoots(fr, roots, i) ==
  IF i > Len(roots) THEN [frames |-> fr, err |-> ""]
  ELSE LET r == fixSelfWeight(fr, roots[i])
       IN IF r.err # "" THEN r ELSE fixRoots(r.frames, roots, i + 1)

\* The "Find parent" loop: the ancestor of depth d - 1, 0 when the walk
\* steps onto a nil parent.
\* The walk that stops at lastFrame's parent whatever its depth.
findParentNoWalk(fr, parent, d) == parent

RECURSIVE findParent(_, _, _)
findParent(fr, parent, d) ==
  IF parent = 0 THEN 0
  ELSE IF fr[parent].Depth = d - 1 THEN parent
  ELSE findParent(fr, fr[parent].Parent, d)

InitSample ==
  /\ pc = "header"
  /\ err = ""
  /\ p = <<>>
  /\ processes = <<>>
  /\ threads = <<>>
  /\ frames = <<>>
  /\ currentProcess = 0
  /\ currentThread = 0
  /\ lastFrame = 0
  /\ sampleRate = 1000000
  /\ nread = 0
  /\ origWeight = <<>>
  /\ warnings = {}
  /\ lines = <<>>
  /\ cfg = NoConfig
  /\ pprof = NoProfile
  /\ run = NoRun

Fail(e) ==
  /\ pc' = "error"
  /\ err' = e

Panic ==
  /\ pc' = "panic"
  /\ err' = ""

\* One pass of the header loop over a line that is not "Call graph".
SampleHeaderLine ==
  /\ pc = "header"
  /\ nread < MaxHeaderLines
  /\ \E line \in HeaderLines :
       /\ line.kind # "callgraph"
       /\ nread' = nread + 1
       /\ LET rate == IF line.kind = "analysis" THEN parseSampleRate(line).rate ELSE sampleRate
              warn == IF line.kind = "analysis" THEN parseSampleRate(line).warn ELSE {}
              verr == IF line.kind = "version" THEN checkReportVersion(line) ELSE ""
              pr == IF line.kind = "process" THEN parseProcess(line)
                    ELSE [err |-> "", proc |-> Process("", 0)]
          IN /\ sampleRate' = rate
             /\ warnings' = warnings \cup warn
             /\ IF verr # "" THEN Fail(verr) /\ UNCHANGED <<p, processes>>
                ELSE IF line.kind = "process" /\ Len(p) > 0
                  THEN Fail("More than one process line present") /\ UNCHANGED <<p, processes>>
                ELSE IF line.kind = "process" /\ pr.err # ""
                  THEN Fail(pr.err) /\ UNCHANGED <<p, processes>>
                ELSE IF line.kind = "process"
                  THEN /\ processes' = Append(processes, pr.proc)
                       /\ p' = Append(p, Len(processes) + 1)
                       /\ UNCHANGED <<pc, err>>
                ELSE UNCHANGED <<pc, err, p, processes>>
       \* the "Analysis of sampling" lines read so far
       /\ lines' = IF line.kind = "analysis" THEN Append(lines, line) ELSE lines
  /\ UNCHANGED <<threads, frames, currentProcess, currentThread, lastFrame, origWeight>>
  /\ UNCHANGED convVars

\* The header loop reaches end of file.
SampleHeaderEOF ==
  /\ pc = "header"
  /\ Fail("could not find the 'Call Graph' line")
  /\ UNCHANGED <<p, processes, threads, frames, currentProcess, currentThread,
                 lastFrame, sampleRate, nread, origWeight, warnings, lines>>
  /\ UNCHANGED convVars

\* The "Call graph" line ends the header; process := p.Processes[0].
SampleCallGraph ==
  /\ pc = "header"
  /\ IF Len(p) = 0 THEN Panic /\ UNCHANGED <<currentProcess>>
     ELSE /\ pc' = "callgraph"
          /\ currentProcess' = p[1]
          /\ err' = err
  /\ nread' = 0
  /\ UNCHANGED <<p, processes, threads, frames, currentThread, lastFrame,
                 sampleRate, origWeight, warnings, lines>>
  /\ UNCHANGED convVars

\* One pass of the call-graph loop over a non-blank line.
SampleCallLine ==
  /\ pc = "callgraph"
  /\ nread < MaxCallLines
  /\ \E line \in CallLines :
       \* the call-graph lines read so far, after the "Analysis" lines
       /\ lines' = Append(lines, line)
       /\ LET r == sampleParseCallLine(line)
              cf == r.frame
              id == Len(frames) + 1
              scaled == [cf EXCEPT !.SelfWeightNs = @ * sampleRate]
              \* lines 208-209, after the frame was attached
              Attached(fr, parent) ==
                /\ frames' = Append(fr, [scaled EXCEPT !.Parent = parent])
                /\ origWeight' = Append(origWeight, scaled.SelfWeightNs)
                /\ lastFrame' = id
                /\ nread' = nread + 1
                /\ UNCHANGED <<pc, err>>
              Stop(how) ==
                /\ how
                /\ UNCHANGED <<frames, origWeight, lastFrame, nread, threads, processes,
                               currentThread>>
          IN IF r.err # "" THEN Stop(Fail(r.err))
             ELSE IF cf.Depth = 0 THEN
               /\ threads' = Append(threads, Thread(cf.SymbolName, 0))
               /\ currentThread' = Len(threads) + 1
               /\ processes' = [processes EXCEPT ![currentProcess].Threads =
                                  Append(@, Len(threads) + 1)]
               /\ Attached(frames, 0)
             ELSE IF cf.Depth = 1 THEN
               IF currentThread = 0 THEN Stop(Panic)
               ELSE /\ threads' = [threads EXCEPT ![currentThread].Frames = Append(@, id)]
                    /\ Attached(frames, 0)
                    /\ UNCHANGED <<processes, currentThread>>
             ELSE IF lastFrame = 0 THEN Stop(Panic)
             ELSE IF cf.Depth > frames[lastFrame].Depth THEN
               IF cf.Depth - frames[lastFrame].Depth # 1 THEN Stop(Fail("Skipped frame depth"))
               ELSE /\ Attached([frames EXCEPT ![lastFrame].Children = Append(@, id)], lastFrame)
                    /\ UNCHANGED <<threads, processes, currentThread>>
             ELSE LET parent == findParent(frames, frames[lastFrame].Parent, cf.Depth)
                  IN IF parent = 0 THEN Stop(Panic)
                     ELSE /\ Attached([frames EXCEPT ![parent].Children = Append(@, id)], parent)
                          /\ UNCHANGED <<threads, processes, currentThread>>
  /\ UNCHANGED <<p, currentProcess, sampleRate, warnings>>
  /\ UNCHANGED convVars

\* A blank line or end of file ends the call graph; then the "Fix weights"
\* loops run and ParseSample returns.
SampleFixWeights ==
  /\ pc = "callgraph"
  /\ LET r == fixRoots(frames, RootsFrom(threads, processes[currentProcess].Threads, 1), 1)
     IN /\ frames' = r.frames
        /\ IF r.err # "" THEN Fail(r.err)
           ELSE pc' = "done" /\ err' = ""
  /\ UNCHANGED <<p, processes, threads, currentProcess, currentThread, lastFrame,
                 sampleRate, nread, origWeight, warnings, lines>>
  /\ UNCHANGED convVars

NextSample ==
  \/ SampleHeaderLine
  \/ SampleHeaderEOF
  \/ SampleCallGraph
  \/ SampleCallLine
  \/ SampleFixWeights

SpecSample == InitSample /\ [][NextSample]_vars

(***************************************************************************)
(* Collapsed parser.  A line is a sequence of one-character strings.       *)
(***************************************************************************)
Digits == <<"0", "1", "2", "3", "4", "5", "6", "7", "8", "9">>

IsDigit(c) == \E d \in 1..10 : Digits[d] = c

DigitVal(c) == (CHOOSE d \in 1..10 : Digits[d] = c) - 1

RECURSIVE DigitsVal(_)
DigitsVal(s) ==
  IF s = <<>> THEN 0
  ELSE 10 * DigitsVal(SubSeq(s, 1, Len(s) - 1)) + DigitVal(s[Len(s)])

\* strconv.ParseInt(s, 10, 64): an optional sign, then one or more digits.
ParseInt(s) ==
  LET signed == s # <<>> /\ s[1] \in {"+", "-"}
      body == IF signed THEN Tail(s) ELSE s
  IN IF body = <<>> \/ \E i \in 1..Len(body) : ~IsDigit(body[i])
     THEN [err |-> "invalid syntax", n |-> 0]
     ELSE [err |-> "", n |-> IF signed /\ s[1] = "-" THEN 0 - DigitsVal(body)
                            ELSE DigitsVal(body)]

\* strings.LastIndex(s, c): 0-based, -1 when c does not occur.
LastIndex(s, c) ==
  IF \E i \in 1..Len(s) : s[i] = c
  THEN (CHOOSE i \in 1..Len(s) : s[i] = c /\ \A j \in (i + 1)..Len(s) : s[j] # c) - 1
  ELSE -1

\* strings.Split(s, c)
RECURSIVE Split(_, _)
Split(s, c) ==
  IF \E i \in 1..Len(s) : s[i] = c
  THEN LET i == CHOOSE k \in 1..Len(s) : s[k] = c /\ \A j \in 1..(k - 1) : s[j] # c
       IN <<SubSeq(s, 1, i - 1)>> \o Split(SubSeq(s, i + 1, Len(s)), c)
  ELSE <<s>>

\* The Go string of a sequence of characters.
RECURSIVE Str(_)
Str(s) == IF s = <<>> THEN "" ELSE s[1] \o Str(Tail(s))

\* Lines 96-123 of parseCallLine: the chain of frames of one stack, appended
\* to the heap; the first of them is the frame returned.
RECURSIVE collapsedChildren(_, _, _, _)
collapsedChildren(fr, funs, index, last) ==
  IF index >= Len(funs) THEN [frames |-> fr, last |-> last]
  ELSE LET id == Len(fr) + 1
           cur == [Frame(Str(funs[index + 1]), 0, index) EXCEPT !.Parent = last]
       IN collapsedChildren(
            Append([fr EXCEPT ![last].Children = Append(@, id)], cur),
            funs, index + 1, id)

collapsedChainWeightOnRoot(fr, funs, frequence) ==
  LET root == Len(fr) + 1
      r == collapsedChildren(Append(fr, Frame(Str(funs[1]), 0, 0)), funs, 1, root)
  IN [frames |-> [r.frames EXCEPT ![root].SelfWeightNs = frequence], frame |-> root]

collapsedChain(fr, funs, frequence) ==
  LET root == Len(fr) + 1
      r == collapsedChildren(Append(fr, Frame(Str(funs[1]), 0, 0)), funs, 1, root)
  IN [frames |-> [r.frames EXCEPT ![r.last].SelfWeightNs = frequence], frame |-> root]

\* parseCallLine of the collapsed parser on heap fr: the heap after it, the
\* frame and the error it returns, and whether it panicked.
collapsedParseCallLine(fr, line) ==
  LET sep == LastIndex(line, " ")
      freq == ParseInt(SubSeq(line, sep + 2, Len(line)))
  IN IF freq.err # "" THEN [frames |-> fr, frame |-> 0, err |-> "", panic |-> FALSE]
     ELSE IF sep < 0 THEN [frames |-> fr, frame |-> 0, err |-> "", panic |-> TRUE]
     ELSE LET funs == Split(SubSeq(line, 1, sep), ";")
          IN IF Len(funs) = 0
             THEN [frames |-> fr, frame |-> 0, err |-> "Error parsing function names.",
                   panic |-> FALSE]
             ELSE LET c == collapsedChain(fr, funs, freq.n)
                  IN [frames |-> c.frames, frame |-> c.frame, err |-> "", panic |-> FALSE]

\* The input files: lines written as "f1;...;fN <count>", and other lines.
MaxCollapsedLines == 2
MaxStack == 2

FunNames == {<<"a">>, <<"b", " ", "c">>}
Counts == {0, 13, -1}

RECURSIVE NatChars(_)
NatChars(n) ==
  IF n < 10 THEN <<Digits[n + 1]>>
  ELSE NatChars(n \div 10) \o <<Digits[(n % 10) + 1]>>

IntChars(n) == IF n < 0 THEN <<"-">> \o NatChars(0 - n) ELSE NatChars(n)

RECURSIVE JoinSemis(_)
JoinSemis(funs) ==
  IF Len(funs) = 1 THEN funs[1]
  ELSE funs[1] \o <<";">> \o JoinSemis(Tail(funs))

Stacks == UNION {[1..n -> FunNames] : n \in 1..MaxStack}

StackLines ==
  {[text |-> JoinSemis(funs) \o <<" ">> \o IntChars(count),
    formed |-> TRUE, funs |-> funs, count |-> count] :
     funs \in Stacks, count \in Counts}

OtherLines ==
  {[text |-> t, formed |-> FALSE, funs |-> <<>>, count |-> 0] :
     t \in {<<>>, <<"a">>, <<"a", " ", "x">>, <<"a", ";", "a", " ">>, <<"7">>}}

CollapsedInputs == StackLines \cup OtherLines

InitCollapsed ==
  /\ pc = "scan"
  /\ err = ""
  /\ p = <<>>
  /\ processes = <<>>
  /\ threads = <<>>
  /\ frames = <<>>
  /\ currentProcess = 0
  /\ currentThread = 0
  /\ lastFrame = 0
  /\ sampleRate = 0
  /\ nread = 0
  /\ origWeight = <<>>
  /\ warnings = {}
  /\ lines = <<>>
  /\ cfg = NoConfig
  /\ pprof = NoProfile
  /\ run = NoRun

\* MakeCollapsedParser: the scanner appends the next line of the file.
CollapsedScan ==
  /\ pc = "scan"
  /\ Len(lines) < MaxCollapsedLines
  /\ \E l \in CollapsedInputs : lines' = Append(lines, l)
  /\ UNCHANGED <<pc, err, p, processes, threads, frames, currentProcess,
                 currentThread, lastFrame, sampleRate, nread, origWeight, warnings>>
  /\ UNCHANGED convVars

\* ParseProfile up to its loop: the dummy process and the dummy thread.
CollapsedParseProfile ==
  /\ pc = "scan"
  /\ pc' = "collapsed"
  /\ processes' = Append(processes, [Process("", 0) EXCEPT !.Threads = <<Len(threads) + 1>>])
  /\ p' = Append(p, Len(processes) + 1)
  /\ threads' = Append(threads, Thread("", 0))
  /\ currentProcess' = Len(processes) + 1
  /\ currentThread' = Len(threads) + 1
  /\ nread' = 0
  /\ UNCHANGED <<err, frames, lastFrame, sampleRate, origWeight, warnings, lines>>
  /\ UNCHANGED convVars

\* One pass of the loop of ParseProfile over d.lines.
CollapsedParseLine ==
  /\ pc = "collapsed"
  /\ nread < Len(lines)
  /\ LET r == collapsedParseCallLine(frames, lines[nread + 1].text)
     IN IF r.panic THEN Panic /\ UNCHANGED <<frames, threads, nread>>
        ELSE IF r.err # "" THEN Fail(r.err) /\ UNCHANGED <<frames, threads, nread>>
        ELSE /\ frames' = r.frames
             /\ threads' = [threads EXCEPT ![currentThread].Frames = Append(@, r.frame)]
             /\ nread' = nread + 1
             /\ UNCHANGED <<pc, err>>
  /\ UNCHANGED <<p, processes, currentProcess, currentThread, lastFrame, sampleRate,
                 origWeight, warnings, lines>>
  /\ UNCHANGED convVars

\* The loop is over: return p, nil.
CollapsedReturn ==
  /\ pc = "collapsed"
  /\ nread = Len(lines)
  /\ pc' = "done"
  /\ UNCHANGED <<err, p, processes, threads, frames, currentProcess, currentThread,
                 lastFrame, sampleRate, nread, origWeight, warnings, lines>>
  /\ UNCHANGED convVars

NextCollapsed ==
  \/ CollapsedScan
  \/ CollapsedParseProfile
  \/ CollapsedParseLine
  \/ CollapsedReturn

SpecCollapsed == InitCollapsed /\ [][NextCollapsed]_vars

(***************************************************************************)
(* Profile converter.  Go maps are functions; a *profile.Function or        *)
(* *profile.Location is the record made when it was created (neither is     *)
(* changed afterwards).                                                     *)
(***************************************************************************)
EmptyMap == [k \in {} |-> 0]

HexDigits == <<"0", "1", "2", "3", "4", "5", "6", "7", "8", "9",
               "a", "b", "c", "d", "e", "f">>

\* fmt.Sprintf("%x", n)
RECURSIVE Hex(_)
Hex(n) ==
  IF n < 16 THEN HexDigits[n + 1]
  ELSE Hex(n \div 16) \o HexDigits[(n % 16) + 1]

newPprofConverter ==
  [consumedAnnotations |-> EmptyMap,
   functions |-> EmptyMap,
   nextFunctionID |-> 1,
   locations |-> EmptyMap,
   nextLocationID |-> 1,
   samples |-> <<>>,
   panic |-> FALSE]

\* getFunction without the lookup: a new function at every call.
getFunctionAlwaysNew(c, name) ==
  LET f == [ID |-> c.nextFunctionID, Name |-> name, SystemName |-> name]
  IN [c |-> [c EXCEPT !.functions = (name :> f) @@ @, !.nextFunctionID = @ + 1],
      f |-> f]

getFunction(c, name) ==
  IF name \in DOMAIN c.functions THEN [c |-> c, f |-> c.functions[name]]
  ELSE LET f == [ID |-> c.nextFunctionID, Name |-> name, SystemName |-> name]
       IN [c |-> [c EXCEPT !.functions = (name :> f) @@ @, !.nextFunctionID = @ + 1],
           f |-> f]

\* The miss branch that ends getLocation, getThreadLocation and
\* getProcessLocation: a new location under key id for function g.f, g
\* being what getFunction returned.
\* newLocation with the counter advanced before it is read: ids from 2 on.
newLocationFromTwo(g, id) ==
  LET loc == [ID |-> g.c.nextLocationID + 1, Function |-> g.f]
  IN [c |-> [g.c EXCEPT !.locations = (id :> loc) @@ @, !.nextLocationID = @ + 1],
      loc |-> loc]

newLocation(g, id) ==
  LET loc == [ID |-> g.c.nextLocationID, Function |-> g.f]
  IN [c |-> [g.c EXCEPT !.locations = (id :> loc) @@ @, !.nextLocationID = @ + 1],
      loc |-> loc]

\* The map lookup that ends the three of them: the location under key id,
\* created with the function called name when there is none.
locationFor(c, id, name) ==
  IF id \in DOMAIN c.locations THEN [c |-> c, loc |-> c.locations[id]]
  ELSE newLocation(getFunction(c, name), id)

getLocation(c, symbolName, proc, th) ==
  locationFor(c, [methodName |-> symbolName, pid |-> proc.Pid, tid |-> th.Tid], symbolName)

ThreadLabel(cf, th) ==
  IF cf.includeThreadAndProcessIds
  THEN th.Name \o " [tid: 0x" \o Hex(th.Tid) \o "]"
  ELSE th.Name

getThreadLocation(c, cf, proc, th) ==
  locationFor(c, [methodName |-> ThreadLabel(cf, th), pid |-> proc.Pid, tid |-> th.Tid],
              ThreadLabel(cf, th))

\* ProcessLabel with the annotation looked up without the process's pid:
\* any entry of the map annotates.
ProcessLabelAnyAnnotation(cf, proc) ==
  LET name == IF cf.includeThreadAndProcessIds
              THEN proc.Name \o " [pid: " \o ToString(proc.Pid) \o "]"
              ELSE proc.Name
  IN IF DOMAIN cf.annotations # {}
     THEN name \o " [" \o cf.annotations[CHOOSE k \in DOMAIN cf.annotations : TRUE] \o "]"
     ELSE name

\* The name getProcessLocation builds: lines 238-251.
ProcessLabel(cf, proc) ==
  LET name == IF cf.includeThreadAndProcessIds
              THEN proc.Name \o " [pid: " \o ToString(proc.Pid) \o "]"
              ELSE proc.Name
  IN IF proc.Pid # 0 /\ proc.Pid \in DOMAIN cf.annotations
     THEN name \o " [" \o cf.annotations[proc.Pid] \o "]"
     ELSE name

\* Lines 245-251: the annotation of proc's pid is marked as consumed.
consumeAnnotation(c, cf, proc) ==
  IF proc.Pid # 0 /\ proc.Pid \in DOMAIN cf.annotations
  THEN [c EXCEPT !.consumedAnnotations = (proc.Pid :> cf.annotations[proc.Pid]) @@ @]
  ELSE c

getProcessLocation(c, cf, proc) ==
  locationFor(consumeAnnotation(c, cf, proc),
              [methodName |-> proc.Name, pid |-> proc.Pid, tid |-> 0],
              ProcessLabel(cf, proc))

\* stackTrace = append(stackTrace, loc), g being what a get...Location
\* returned.
appendLocation(g, st) == [c |-> g.c, st |-> Append(st, g.loc)]

\* The loop of convertSample from currentFrame up the Parent references;
\* s holds the converter and the stack trace so far.
RECURSIVE stackTraceFrom(_, _, _, _)
stackTraceFrom(s, currentFrame, proc, th) ==
  IF currentFrame = 0 THEN s
  ELSE stackTraceFrom(
         appendLocation(getLocation(s.c, frames[currentFrame].SymbolName, proc, th), s.st),
         frames[currentFrame].Parent, proc, th)

\* Lines 276-278.
threadPseudoFrame(s, cf, proc, th) ==
  IF ~cf.excludeThreadsFromStack
  THEN appendLocation(getThreadLocation(s.c, cf, proc, th), s.st)
  ELSE s

\* Lines 279-281.
processPseudoFrame(s, cf, proc) ==
  IF ~cf.excludeProcessesFromStack
  THEN appendLocation(getProcessLocation(s.c, cf, proc), s.st)
  ELSE s

\* Lines 282-291.
newSample(s, sample, th, proc) ==
  [c |-> s.c,
   sample |-> [Location |-> s.st,
               Value |-> <<frames[sample].SelfWeightNs>>,
               Label |-> [pid |-> ToString(proc.Pid),
                          tid |-> ToString(th.Tid),
                          process_name |-> proc.Name,
                          thread_name |-> th.Name]]]

convertSample(c, cf, sample, th, proc) ==
  newSample(
    processPseudoFrame(
      threadPseudoFrame(
        stackTraceFrom([c |-> c, st |-> <<>>], sample, proc, th),
        cf, proc, th),
      cf, proc),
    sample, th, proc)

\* toPprof.samples = append(toPprof.samples, ...), g being what
\* convertSample returned.
appendSample(g) == [g.c EXCEPT !.samples = Append(@, g.sample)]

RECURSIVE findSamplesInFrame(_, _, _, _, _)
RECURSIVE findSamplesInFrames(_, _, _, _, _, _)
\* findSamplesInFrame without the test of line 295: every frame is sampled.
findSamplesInEveryFrame(c, cf, proc, th, currentFrame) ==
  IF c.panic THEN c
  ELSE IF currentFrame = 0 THEN [c EXCEPT !.panic = TRUE]
  ELSE findSamplesInFrames(
         appendSample(convertSample(c, cf, currentFrame, th, proc)),
         cf, proc, th, frames[currentFrame].Children, 1)

findSamplesInFrame(c, cf, proc, th, currentFrame) ==
  IF c.panic THEN c
  ELSE IF currentFrame = 0 THEN [c EXCEPT !.panic = TRUE]
  ELSE findSamplesInFrames(
         IF frames[currentFrame].SelfWeightNs # 0
         THEN appendSample(convertSample(c, cf, currentFrame, th, proc))
         ELSE c,
         cf, proc, th, frames[currentFrame].Children, 1)

\* A loop over a list of frames (Frame.Children, Thread.Frames) from the
\* i-th on.
findSamplesInFrames(c, cf, proc, th, fs, i) ==
  IF i > Len(fs) THEN c
  ELSE findSamplesInFrames(findSamplesInFrame(c, cf, proc, th, fs[i]),
                           cf, proc, th, fs, i + 1)

findSamples(c, cf, proc, th) ==
  IF Len(th.Frames) = 0 THEN c
  ELSE findSamplesInFrames(c, cf, proc, th, th.Frames, 1)

\* The loops of convertToPprof over the processes and their threads.
RECURSIVE convertThreads(_, _, _, _)
convertThreads(c, cf, proc, i) ==
  IF i > Len(proc.Threads) THEN c
  ELSE convertThreads(findSamples(c, cf, proc, threads[proc.Threads[i]]), cf, proc, i + 1)

RECURSIVE convertProcesses(_, _, _)
convertProcesses(c, cf, i) ==
  IF i > Len(p) THEN c
  ELSE convertProcesses(convertThreads(c, cf, processes[p[i]], 1), cf, i + 1)

\* The pids the "Not all annotations were used" warning lists.
UnusedAnnotations(c, cf) ==
  IF Cardinality(DOMAIN c.consumedAnnotations) < Cardinality(DOMAIN cf.annotations)
  THEN {[kind |-> "unused", pid |-> pid] :
          pid \in DOMAIN cf.annotations \ DOMAIN c.consumedAnnotations}
  ELSE {}

\* Lines 319-346 of convertToPprof, c being the converter after the walk.
newProfile(c, cf) ==
  [set |-> TRUE,
   panic |-> c.panic,
   Sample |-> c.samples,
   Location |-> c.locations,
   Function |-> c.functions,
   warn |-> UnusedAnnotations(c, cf)]

convertToPprof(cf) == newProfile(convertProcesses(newPprofConverter, cf, 1), cf)

\* The warning of TimeProfileToPprof, lines 356-358.
IgnoredAnnotations(cf) ==
  IF cf.excludeProcessesFromStack /\ DOMAIN cf.annotations # {}
  THEN {[kind |-> "ignored", pid |-> 0]}
  ELSE {}

withWarnings(r, w) == [r EXCEPT !.warn = @ \cup w]

TimeProfileToPprof(cf) == withWarnings(convertToPprof(cf), IgnoredAnnotations(cf))

\* The trees given to the converter, built the way MakeDeepCopy and the
\* parsers build them: processes, threads and frames are appended in order,
\* a frame as a root frame of the last thread or below a frame of the
\* last thread's last branch.
MaxProcesses == 2
MaxThreads == 2
MaxFrames == 3

ProcessNames == {"P"}
ThreadNames == {"T"}
FrameNames == {"a", "P"}
Pids == {0, 1}
Tids == {0, 1}
\* The self weight of the id-th frame: none, or one no other frame has.
Weights(id) == {0, id}
AnnotationMaps == UNION {[pids -> {"note"}] : pids \in SUBSET {0, 1}}

Configs ==
  [set : {TRUE},
   excludeProcessesFromStack : BOOLEAN,
   excludeThreadsFromStack : BOOLEAN,
   includeThreadAndProcessIds : BOOLEAN,
   annotations : AnnotationMaps]

\* lastFrame and its ancestors.
RECURSIVE Branch(_)
Branch(f) == IF f = 0 THEN {} ELSE {f} \cup Branch(frames[f].Parent)

InitConv ==
  /\ pc = "build"
  /\ err = ""
  /\ p = <<>>
  /\ processes = <<>>
  /\ threads = <<>>
  /\ frames = <<>>
  /\ currentProcess = 0
  /\ currentThread = 0
  /\ lastFrame = 0
  /\ sampleRate = 0
  /\ nread = 0
  /\ origWeight = <<>>
  /\ warnings = {}
  /\ lines = <<>>
  /\ cfg = NoConfig
  /\ pprof = NoProfile
  /\ run = NoRun

BuildProcess ==
  /\ pc = "build"
  /\ Len(processes) < MaxProcesses
  /\ \E name \in ProcessNames, pid \in Pids :
       processes' = Append(processes, Process(name, pid))
  /\ p' = Append(p, Len(processes) + 1)
  /\ currentProcess' = Len(processes) + 1
  /\ currentThread' = 0
  /\ lastFrame' = 0
  /\ UNCHANGED <<pc, err, threads, frames, sampleRate, nread, origWeight, warnings,
                 lines, convVars>>

BuildThread ==
  /\ pc = "build"
  /\ currentProcess # 0
  /\ Len(threads) < MaxThreads
  /\ \E name \in ThreadNames, tid \in Tids :
       threads' = Append(threads, Thread(name, tid))
  /\ processes' = [processes EXCEPT ![currentProcess].Threads = Append(@, Len(threads) + 1)]
  /\ currentThread' = Len(threads) + 1
  /\ lastFrame' = 0
  /\ UNCHANGED <<pc, err, p, frames, currentProcess, sampleRate, nread, origWeight,
                 warnings, lines, convVars>>

BuildFrame ==
  /\ pc = "build"
  /\ currentThread # 0
  /\ Len(frames) < MaxFrames
  /\ \E name \in FrameNames, weight \in Weights(Len(frames) + 1), parent \in {0} \cup Branch(lastFrame) :
       LET id == Len(frames) + 1
           depth == IF parent = 0 THEN 2 ELSE frames[parent].Depth + 1
           f == [Frame(name, weight, depth) EXCEPT !.Parent = parent]
       IN /\ frames' = IF parent = 0 THEN Append(frames, f)
                       ELSE Append([frames EXCEPT ![parent].Children = Append(@, id)], f)
          /\ threads' = IF parent = 0
                        THEN [threads EXCEPT ![currentThread].Frames = Append(@, id)]
                        ELSE threads
          /\ lastFrame' = id
  /\ UNCHANGED <<pc, err, p, processes, currentProcess, currentThread, sampleRate, nread,
                 origWeight, warnings, lines, convVars>>

\* main: pprof := internal.TimeProfileToPprof(timeProfile, flags...)
Convert ==
  /\ pc = "build"
  /\ \E cf \in Configs :
       /\ cfg' = cf
       /\ pprof' = TimeProfileToPprof(cf)
  /\ warnings' = warnings \cup pprof'.warn
  /\ pc' = IF pprof'.panic THEN "panic" ELSE "converted"
  /\ UNCHANGED <<err, p, processes, threads, frames, currentProcess, currentThread,
                 lastFrame, sampleRate, nread, origWeight, lines, run>>

NextConv ==
  \/ BuildProcess
  \/ BuildThread
  \/ BuildFrame
  \/ Convert

SpecConv == InitConv /\ [][NextConv]_vars

\* The profile with its location and function tables as the slices lines
\* 319-330 of convertToPprof fill: one entry per map entry, in the order
\* the range over the Go map yields them, which Go leaves unspecified.
MaxTableFrames == 1

Perms(S) ==
  {f \in [1..Cardinality(S) -> S] : \A i, j \in 1..Cardinality(S) : f[i] = f[j] => i = j}

listTables(r, locationOrder, functionOrder) ==
  [r EXCEPT !.Location = [i \in 1..Len(locationOrder) |-> r.Location[locationOrder[i]]],
            !.Function = [i \in 1..Len(functionOrder) |-> r.Function[functionOrder[i]]]]

\* main: pprof := internal.TimeProfileToPprof(timeProfile, flags...), with
\* the tables as slices.
ConvertTables ==
  /\ pc = "build"
  /\ Len(frames) <= MaxTableFrames
  /\ \E cf \in Configs :
       /\ cfg' = cf
       /\ \E r \in {TimeProfileToPprof(cf)} :
            \E locationOrder \in Perms(DOMAIN r.Location),
               functionOrder \in Perms(DOMAIN r.Function) :
              pprof' = listTables(r, locationOrder, functionOrder)
  /\ warnings' = warnings \cup pprof'.warn
  /\ pc' = IF pprof'.panic THEN "panic" ELSE "converted"
  /\ UNCHANGED <<err, p, processes, threads, frames, currentProcess, currentThread,
                 lastFrame, sampleRate, nread, origWeight, lines, run>>

NextTables ==
  \/ BuildProcess
  \/ BuildThread
  \/ BuildFrame
  \/ ConvertTables

SpecTables == InitConv /\ [][NextTables]_vars

(***************************************************************************)
(* Deep-copy parser.  A line is what strings.Split(line, "\t") and the     *)
(* regular expressions see of it: whether it is blank, its number of tab   *)
(* separated fields, the text of the self weight field, the number of      *)
(* leading spaces of the last field and the rest of that field.            *)
(***************************************************************************)
MaxDeepCopyLines == 5
MaxIndent == 4

\* The text of a self weight field: the number of fields strings.Split(text,
\* " ") gives, whether strconv.ParseFloat accepts the first, its value in
\* hundredths, and the unit.
WeightText(nfields, float, hundredths, unit) ==
  [nfields |-> nfields, float |-> float, hundredths |-> hundredths, unit |-> unit]

\* "1.00 ms"
OneMs == WeightText(2, TRUE, 100, "ms")

\* "2.50 µs", "-1.00 ns", "0.50 ns", "1.00 s", "1.00 h", "1.00ms", "Self Weight"
OtherWeightTexts ==
  {WeightText(2, TRUE, 250, "µs"), WeightText(2, TRUE, -100, "ns"),
   WeightText(2, TRUE, 50, "ns"), WeightText(2, TRUE, 100, "s"),
   WeightText(2, TRUE, 100, "h"), WeightText(1, FALSE, 0, ""),
   WeightText(2, FALSE, 0, "Weight")}

\* The multiplier of the switch of parseSelfWeight, 0 for its default case.
UnitFactor(unit) ==
  CASE unit = "s" -> 1000000000
    [] unit = "ms" -> 1000000
    [] unit = "µs" -> 1000
    [] unit = "ns" -> 1
    [] OTHER -> 0

\* int64(value * factor) for value = hundredths / 100: truncation toward 0.
Int64Of(hundredths, factor) ==
  LET mag == IF hundredths < 0 THEN 0 - hundredths ELSE hundredths
      ns == IF factor >= 100 THEN mag * (factor \div 100) ELSE (mag * factor) \div 100
  IN IF hundredths < 0 THEN 0 - ns ELSE ns

parseSelfWeight(text) ==
  IF text.nfields # 2 THEN [err |-> "Self weight not parsable", ns |-> 0]
  ELSE IF ~text.float THEN [err |-> "Could not parse self weight", ns |-> 0]
  ELSE IF UnitFactor(text.unit) = 0 THEN [err |-> "Could not interpret time unit", ns |-> 0]
  ELSE [err |-> "", ns |-> Int64Of(text.hundredths, UnitFactor(text.unit))]

DeepCopyLine(nfields, weight, indent, name) ==
  [blank |-> FALSE, header |-> FALSE, nfields |-> nfields, weight |-> weight,
   indent |-> indent, name |-> name]

BlankLine == [DeepCopyLine(1, OneMs, 0, "") EXCEPT !.blank = TRUE]

\* "Weight\tSelf Weight\t\tSymbol Name" and "Weight\tSelf Weight\tSymbol Names"
HeaderLinesDeepCopy ==
  {[DeepCopyLine(4, WeightText(2, FALSE, 0, "Weight"), 0, "Symbol Name")
      EXCEPT !.header = TRUE],
   [DeepCopyLine(3, WeightText(2, FALSE, 0, "Weight"), 0, "Symbol Names")
      EXCEPT !.header = TRUE]}

\* The labels of the model: process labels (the pid of the second is no
\* number), thread labels (the second has one space only) and a symbol.
ProcessLabels == {"P (1)", "P (x)"}
ThreadLabels == {"T  0x1", "T 0x1"}
SymbolLabels == {"f"}

\* The input lines: the blank line, the header lines, a line of two fields,
\* four-field lines of every indentation, three-field lines, and lines with
\* other self weight texts.
DeepCopyLines ==
  {BlankLine} \cup HeaderLinesDeepCopy
  \cup {DeepCopyLine(2, OneMs, 0, "f")}
  \cup {DeepCopyLine(4, OneMs, 0, n) : n \in ProcessLabels \cup SymbolLabels}
  \cup {DeepCopyLine(4, OneMs, 1, n) : n \in ThreadLabels \cup SymbolLabels}
  \cup {DeepCopyLine(4, OneMs, i, n) : i \in 2..MaxIndent, n \in SymbolLabels}
  \cup {DeepCopyLine(3, OneMs, i, n) : i \in {0, 3}, n \in SymbolLabels}
  \cup {DeepCopyLine(4, w, 2, n) : w \in OtherWeightTexts, n \in SymbolLabels}

parseLine(line) ==
  IF line.nfields # 3 /\ line.nfields # 4
  THEN [err |-> "Could not parse line", frame |-> Frame("", 0, 0)]
  ELSE IF parseSelfWeight(line.weight).err # ""
  THEN [err |-> parseSelfWeight(line.weight).err, frame |-> Frame("", 0, 0)]
  ELSE [err |-> "",
        frame |-> Frame(line.name, parseSelfWeight(line.weight).ns,
                        IF line.nfields = 3 THEN line.indent - 1 ELSE line.indent)]

\* processRe.FindStringSubmatch on the labels of the model: the name and the
\* digits of "<name> (<digits>)", no match for the other labels.
processRe(name) ==
  IF name = "P (1)" THEN [match |-> TRUE, name |-> "P", id |-> 1]
  ELSE [match |-> FALSE, name |-> "", id |-> 0]

\* threadRe.FindStringSubmatch on the labels of the model: the name and the
\* hexadecimal digits of "<name>  0x<digits>".
threadRe(name) ==
  IF name = "T  0x1" THEN [match |-> TRUE, name |-> "T", id |-> 1]
  ELSE [match |-> FALSE, name |-> "", id |-> 0]

\* The locals and the result of ParseProfile as one record.
ParserState ==
  [pc |-> pc, err |-> err, p |-> p, processes |-> processes, threads |-> threads,
   frames |-> frames, currentProcess |-> currentProcess,
   currentThread |-> currentThread, lastFrame |-> lastFrame, warnings |-> warnings]

\* ParseProfile at its first line.
deepCopyStart ==
  [pc |-> "parse", err |-> "", p |-> <<>>, processes |-> <<>>, threads |-> <<>>,
   frames |-> <<>>, currentProcess |-> 0, currentThread |-> 0, lastFrame |-> 0,
   warnings |-> {}]

\* return nil, err
failed(s, e) == [s EXCEPT !.pc = "error", !.err = e]

\* A nil dereference.
panicked(s) == [s EXCEPT !.pc = "panic"]

\* newProcessFromFrame that rejects a label processRe does not match.
newProcessFromFrameStrict(f) ==
  IF f.Depth # 0 THEN [err |-> "Process must have depth 0", proc |-> Process("", 0), warn |-> {}]
  ELSE IF ~processRe(f.SymbolName).match
  THEN [err |-> "Error parsing process", proc |-> Process("", 0), warn |-> {}]
  ELSE [err |-> "", proc |-> Process(processRe(f.SymbolName).name, processRe(f.SymbolName).id),
        warn |-> {}]

newProcessFromFrame(f) ==
  IF f.Depth # 0 THEN [err |-> "Process must have depth 0", proc |-> Process("", 0), warn |-> {}]
  ELSE IF ~processRe(f.SymbolName).match
  THEN [err |-> "", proc |-> Process(f.SymbolName, 0),
        warn |-> {[kind |-> "process", text |-> f.SymbolName]}]
  ELSE [err |-> "", proc |-> Process(processRe(f.SymbolName).name, processRe(f.SymbolName).id),
        warn |-> {}]

newThreadFromFrame(f) ==
  IF f.Depth # 1 THEN [err |-> "Thread must have depth 1", thread |-> Thread("", 0), warn |-> {}]
  ELSE IF ~threadRe(f.SymbolName).match
  THEN [err |-> "", thread |-> Thread(f.SymbolName, 0),
        warn |-> {[kind |-> "thread", text |-> f.SymbolName]}]
  ELSE [err |-> "", thread |-> Thread(threadRe(f.SymbolName).name, threadRe(f.SymbolName).id),
        warn |-> {}]

\* Lines 74-78, n being what newProcessFromFrame returned.
addProcess(s, n) ==
  IF n.err # "" THEN failed(s, n.err)
  ELSE [s EXCEPT !.processes = Append(@, n.proc),
                 !.p = Append(@, Len(s.processes) + 1),
                 !.currentProcess = Len(s.processes) + 1,
                 !.warnings = @ \cup n.warn]

\* addThread without lastFrame = nil.
addThreadKeepLastFrame(s, n) ==
  IF n.err # "" THEN failed(s, n.err)
  ELSE [s EXCEPT !.threads = Append(@, n.thread),
                 !.processes[s.currentProcess].Threads = Append(@, Len(s.threads) + 1),
                 !.currentThread = Len(s.threads) + 1,
                 !.warnings = @ \cup n.warn]

\* Lines 84-88 and 100-106, n being what newThreadFromFrame returned.
addThread(s, n) ==
  IF n.err # "" THEN failed(s, n.err)
  ELSE [s EXCEPT !.threads = Append(@, n.thread),
                 !.processes[s.currentProcess].Threads = Append(@, Len(s.threads) + 1),
                 !.currentThread = Len(s.threads) + 1,
                 !.lastFrame = 0,
                 !.warnings = @ \cup n.warn]

\* addRootFrame that puts the frame before the thread's other root frames.
addRootFrameInFront(s, f) ==
  [s EXCEPT !.frames = Append(@, f),
            !.threads[s.currentThread].Frames = <<Len(s.frames) + 1>> \o @,
            !.lastFrame = Len(s.frames) + 1]

\* currentThread.Frames = append(currentThread.Frames, currentFrame);
\* lastFrame = currentFrame.
addRootFrame(s, f) ==
  [s EXCEPT !.frames = Append(@, f),
            !.threads[s.currentThread].Frames = Append(@, Len(s.frames) + 1),
            !.lastFrame = Len(s.frames) + 1]

\* addChildFrame with currentFrame.Parent = lastFrame whatever the parent.
addChildFrameParentLast(s, f, parent) ==
  [s EXCEPT !.frames = Append([@ EXCEPT ![parent].Children = Append(@, Len(s.frames) + 1)],
                              [f EXCEPT !.Parent = s.lastFrame]),
            !.lastFrame = Len(s.frames) + 1]

\* parent.Children = append(parent.Children, currentFrame);
\* currentFrame.Parent = parent; lastFrame = currentFrame.
addChildFrame(s, f, parent) ==
  [s EXCEPT !.frames = Append([@ EXCEPT ![parent].Children = Append(@, Len(s.frames) + 1)],
                              [f EXCEPT !.Parent = parent]),
            !.lastFrame = Len(s.frames) + 1]

\* Lines 130-140: the walk from lastFrame.Parent to the frame of depth
\* currentFrame.Depth - 1; it dereferences nil when there is none.
addBelowAncestor(s, f, parent) ==
  IF parent = 0 THEN panicked(s) ELSE addChildFrame(s, f, parent)

\* addFrame without the two depth tests of lines 110-112 and 125-127.
addFrameAnyDepth(s, f) ==
  IF f.Depth = 0 THEN failed(s, "Unexpected new process")
  ELSE IF f.Depth = 1 THEN addThread(s, newThreadFromFrame(f))
  ELSE IF s.lastFrame = 0 THEN addRootFrame(s, f)
  ELSE IF f.Depth = 2 THEN addRootFrame(s, f)
  ELSE IF f.Depth > s.frames[s.lastFrame].Depth THEN addChildFrame(s, f, s.lastFrame)
  ELSE addBelowAncestor(s, f, findParent(s.frames, s.frames[s.lastFrame].Parent, f.Depth))

\* addFrame without the depth test of lines 110-112: the first frame of a
\* thread is a root frame at any depth.
addFrameFirstAtAnyDepth(s, f) ==
  IF f.Depth = 0 THEN failed(s, "Unexpected new process")
  ELSE IF f.Depth = 1 THEN addThread(s, newThreadFromFrame(f))
  ELSE IF s.lastFrame = 0 THEN addRootFrame(s, f)
  ELSE IF f.Depth = 2 THEN addRootFrame(s, f)
  ELSE IF f.Depth > s.frames[s.lastFrame].Depth
  THEN IF f.Depth - s.frames[s.lastFrame].Depth # 1 THEN failed(s, "Skip children somehow?")
       ELSE addChildFrame(s, f, s.lastFrame)
  ELSE addBelowAncestor(s, f, findParent(s.frames, s.frames[s.lastFrame].Parent, f.Depth))

\* Lines 95-141, f being the frame parseLine returned.
addFrame(s, f) ==
  IF f.Depth = 0 THEN failed(s, "Unexpected new process")
  ELSE IF f.Depth = 1 THEN addThread(s, newThreadFromFrame(f))
  ELSE IF s.lastFrame = 0
  THEN IF f.Depth # 2 THEN failed(s, "First frame in thread should have depth 2")
       ELSE addRootFrame(s, f)
  ELSE IF f.Depth = 2 THEN addRootFrame(s, f)
  ELSE IF f.Depth > s.frames[s.lastFrame].Depth
  THEN IF f.Depth - s.frames[s.lastFrame].Depth # 1 THEN failed(s, "Skip children somehow?")
       ELSE addChildFrame(s, f, s.lastFrame)
  ELSE addBelowAncestor(s, f, findParent(s.frames, s.frames[s.lastFrame].Parent, f.Depth))

\* One pass of the loop of ParseProfile, lines 56-142, over a line that is
\* not blank; r is what parseLine returned for it.
parsedLine(s, r) ==
  IF s.currentProcess = 0
  THEN IF r.err # "" THEN failed(s, "Error parsing process frame")
       ELSE addProcess(s, newProcessFromFrame(r.frame))
  ELSE IF s.currentThread = 0
  THEN IF r.err # "" THEN failed(s, "Error parsing thread frame")
       ELSE addThread(s, newThreadFromFrame(r.frame))
  ELSE IF r.err # "" THEN failed(s, r.err)
  ELSE addFrame(s, r.frame)

\* One pass of the loop of ParseProfile.
deepCopyStep(s, line) ==
  IF line.blank
  THEN [s EXCEPT !.currentProcess = 0, !.currentThread = 0, !.lastFrame = 0]
  ELSE IF s.currentProcess = 0 /\ line.header THEN s
  ELSE parsedLine(s, parseLine(line))

\* ParseProfile on the lines ls from the i-th on, from state s.
RECURSIVE deepCopyRun(_, _, _)
deepCopyRun(s, ls, i) ==
  IF i > Len(ls) \/ s.pc # "parse" THEN s
  ELSE deepCopyRun(deepCopyStep(s, ls[i]), ls, i + 1)

InitDeepCopy ==
  /\ pc = "parse"
  /\ err = ""
  /\ p = <<>>
  /\ processes = <<>>
  /\ threads = <<>>
  /\ frames = <<>>
  /\ currentProcess = 0
  /\ currentThread = 0
  /\ lastFrame = 0
  /\ sampleRate = 0
  /\ nread = 0
  /\ origWeight = <<>>
  /\ warnings = {}
  /\ lines = <<>>
  /\ cfg = NoConfig
  /\ pprof = NoProfile
  /\ run = NoRun

\* The parser state becomes s.
Becomes(s) ==
  /\ pc' = s.pc
  /\ err' = s.err
  /\ p' = s.p
  /\ processes' = s.processes
  /\ threads' = s.threads
  /\ frames' = s.frames
  /\ currentProcess' = s.currentProcess
  /\ currentThread' = s.currentThread
  /\ lastFrame' = s.lastFrame
  /\ warnings' = s.warnings

\* One pass of the loop of ParseProfile over the next line of d.lines.
DeepCopyParseLine ==
  /\ pc = "parse"
  /\ Len(lines) < MaxDeepCopyLines
  /\ \E line \in DeepCopyLines :
       /\ lines' = Append(lines, line)
       /\ Becomes(deepCopyStep(ParserState, line))
  /\ UNCHANGED <<sampleRate, nread, origWeight, convVars>>

\* The loop is over: return p, nil.
DeepCopyReturn ==
  /\ pc = "parse"
  /\ pc' = "done"
  /\ UNCHANGED <<err, p, processes, threads, frames, currentProcess, currentThread,
                 lastFrame, sampleRate, nread, origWeight, warnings, lines, convVars>>

NextDeepCopy ==
  \/ DeepCopyParseLine
  \/ DeepCopyReturn

SpecDeepCopy == InitDeepCopy /\ [][NextDeepCopy]_vars

\* The two parsers that rebuild the tree from depths: a run of ParseSample
\* or a run of DeepCopyParser.ParseProfile.
InitParsers == InitSample \/ InitDeepCopy

NextParsers ==
  \/ SampleHeaderLine
  \/ SampleHeaderEOF
  \/ SampleCallGraph
  \/ SampleCallLine
  \/ SampleFixWeights
  \/ DeepCopyParseLine
  \/ DeepCopyReturn

SpecParsers == InitParsers /\ [][NextParsers]_vars

\* A run of any of the three parsers.
InitAnyParser == InitSample \/ InitDeepCopy \/ InitCollapsed

NextAnyParser ==
  \/ SampleHeaderLine
  \/ SampleHeaderEOF
  \/ SampleCallGraph
  \/ SampleCallLine
  \/ SampleFixWeights
  \/ DeepCopyParseLine
  \/ DeepCopyReturn
  \/ CollapsedScan
  \/ CollapsedParseProfile
  \/ CollapsedParseLine
  \/ CollapsedReturn

SpecAnyParser == InitAnyParser /\ [][NextAnyParser]_vars

(***************************************************************************)
(* main: open the input, make the parser, parse, convert, validate, create *)
(* the output file, write.  What the operating system and the libraries    *)
(* answer is chosen at each step.                                          *)
(***************************************************************************)
Formats == {"sample", "instruments", "collapsed", "other"}

\* flag.Args()
ArgLists == {<<>>, <<"-">>, <<"in.txt">>, <<"in.txt", "more">>}

\* The values given with -pidTag: the text before the first colon, whether
\* there is a colon, the text after it.
MaxPidTags == 2

PidTagValues ==
  [pid : {"1", "2", "x"}, colon : {TRUE}, text : {"a", "b"}]
    \cup [pid : {"1", "2", "x"}, colon : {FALSE}, text : {""}]

\* strconv.ParseUint(s, 10, 64) on the texts of the model.
ParseUint(s) ==
  CASE s = "1" -> [err |-> "", n |-> 1]
    [] s = "2" -> [err |-> "", n |-> 2]
    [] OTHER -> [err |-> "invalid syntax", n |-> 0]

\* ProcessAnnotationMap.Set: the map afterwards, the error returned;
\* sp[1] is out of range when the value has no colon.
Set(m, value) ==
  IF ParseUint(value.pid).err # ""
  THEN [m |-> m, err |-> ParseUint(value.pid).err, panic |-> FALSE]
  ELSE IF ~value.colon THEN [m |-> m, err |-> "", panic |-> TRUE]
  ELSE IF ParseUint(value.pid).n \in DOMAIN m
  THEN [m |-> m, err |-> "Duplicate annotation found", panic |-> FALSE]
  ELSE [m |-> (ParseUint(value.pid).n :> value.text) @@ m, err |-> "", panic |-> FALSE]

\* What main does not touch.
parserVars ==
  <<err, p, processes, threads, frames, currentProcess, currentThread, lastFrame,
    sampleRate, nread, origWeight, warnings, lines, cfg, pprof>>

InitMain ==
  /\ pc = "flags"
  /\ err = ""
  /\ p = <<>>
  /\ processes = <<>>
  /\ threads = <<>>
  /\ frames = <<>>
  /\ currentProcess = 0
  /\ currentThread = 0
  /\ lastFrame = 0
  /\ sampleRate = 0
  /\ nread = 0
  /\ origWeight = <<>>
  /\ warnings = {}
  /\ lines = <<>>
  /\ cfg = NoConfig
  /\ pprof = NoProfile
  /\ run \in [set : {TRUE}, format : Formats, args : ArgLists,
              input : {"none"}, opens : {0}, inputClosed : {FALSE},
              out : {"none"}, creates : {0}, file : {"absent"},
              exit : {"running"},
              pidTags : {<<>>}, processAnnotations : {EmptyMap}]

\* log.Fatal, log.Fatalf: os.Exit(1); deferred calls do not run.
Fatal ==
  /\ run' = [run EXCEPT !.exit = "fatal"]
  /\ pc' = "exited"

\* The deferred calls in reverse order: out.Close(), file.Close().
deferredCalls(r) ==
  [r EXCEPT !.out = IF @ = "open" THEN "closed" ELSE @,
            !.inputClosed = (r.input = "file")]

\* flag.Parse at a -pidTag flag: it calls processAnnotations.Set with
\* the value; on an error it prints the usage and exits with status 2.
MainPidTag ==
  /\ pc = "flags"
  /\ Len(run.pidTags) < MaxPidTags
  /\ \E value \in PidTagValues :
       \E r \in {Set(run.processAnnotations, value)} :
         /\ run' = [run EXCEPT !.pidTags = Append(@, value),
                               !.processAnnotations = r.m,
                               !.exit = IF r.panic THEN "panic"
                                        ELSE IF r.err # "" THEN "usage"
                                        ELSE @]
         /\ pc' = IF r.panic \/ r.err # "" THEN "exited" ELSE pc
  /\ UNCHANGED parserVars

\* Lines 69-73.
MainFlags ==
  /\ pc = "flags"
  /\ IF Len(run.args) > 1
     THEN run' = [run EXCEPT !.exit = "usage"] /\ pc' = "exited"
     ELSE pc' = "open" /\ UNCHANGED run
  /\ UNCHANGED parserVars

\* Lines 74-86.
MainOpen ==
  /\ pc = "open"
  /\ IF run.args = <<>> \/ run.args = <<"-">>
     THEN run' = [run EXCEPT !.input = "stdin"] /\ pc' = "parser"
     ELSE \E ok \in BOOLEAN :
            IF ok
            THEN /\ run' = [run EXCEPT !.input = "file", !.opens = @ + 1]
                 /\ pc' = "parser"
            ELSE Fatal
  /\ UNCHANGED parserVars

\* Lines 88-101.
MainMakeParser ==
  /\ pc = "parser"
  /\ IF run.format = "other" THEN Fatal
     ELSE \E ok \in BOOLEAN :
            IF ok THEN pc' = "parse" /\ UNCHANGED run ELSE Fatal
  /\ UNCHANGED parserVars

\* A panic unwinds main: the deferred calls run, then the process ends.
Panics ==
  /\ run' = [deferredCalls(run) EXCEPT !.exit = "panic"]
  /\ pc' = "exited"

\* Lines 102-105: ParseProfile returns a profile or an error, or panics.
MainParse ==
  /\ pc = "parse"
  /\ \E outcome \in {"profile", "error", "panic"} :
       CASE outcome = "profile" -> pc' = "convert" /\ UNCHANGED run
         [] outcome = "error" -> Fatal
         [] outcome = "panic" -> Panics
  /\ UNCHANGED parserVars

\* Lines 106-107: TimeProfileToPprof returns, or panics on a nil frame.
MainConvert ==
  /\ pc = "convert"
  /\ \E ok \in BOOLEAN :
       IF ok THEN pc' = "validate" /\ UNCHANGED run ELSE Panics
  /\ UNCHANGED parserVars

\* Lines 108-110.
MainValidate ==
  /\ pc = "validate"
  /\ \E ok \in BOOLEAN :
       IF ok THEN pc' = "create" /\ UNCHANGED run ELSE Fatal
  /\ UNCHANGED parserVars

\* Lines 111-115: os.Create makes the file, empty, or fails.
MainCreate ==
  /\ pc = "create"
  /\ \E ok \in BOOLEAN :
       IF ok
       THEN /\ run' = [run EXCEPT !.out = "open", !.creates = @ + 1, !.file = "empty"]
            /\ pc' = "write"
       ELSE Fatal
  /\ UNCHANGED parserVars

\* Lines 116-119: pprof.Write writes all of the profile, or fails after
\* writing none or some of it.
MainWrite ==
  /\ pc = "write"
  /\ \E written \in {"complete", "partial", "empty"} :
       IF written = "complete"
       THEN run' = [run EXCEPT !.file = written] /\ pc' = "return"
       ELSE run' = [run EXCEPT !.file = written, !.exit = "fatal"] /\ pc' = "exited"
  /\ UNCHANGED parserVars

\* Line 120: main returns; the deferred calls run.
MainReturn ==
  /\ pc = "return"
  /\ run' = [deferredCalls(run) EXCEPT !.exit = "ok"]
  /\ pc' = "exited"
  /\ UNCHANGED parserVars

NextMain ==
  \/ MainPidTag
  \/ MainFlags
  \/ MainOpen
  \/ MainMakeParser
  \/ MainParse
  \/ MainConvert
  \/ MainValidate
  \/ MainCreate
  \/ MainWrite
  \/ MainReturn

SpecMain == InitMain /\ [][NextMain]_vars

(***************************************************************************)
(* Properties of the sample parser                                         *)
(***************************************************************************)
RECURSIVE SumOver(_, _, _)
\* The sum of w[fs[i]] over the entries of the sequence fs from the i-th on.
SumOver(w, fs, i) == IF i > Len(fs) THEN 0 ELSE w[fs[i]] + SumOver(w, fs, i + 1)

\* The frames of the returned profile: every frame reachable from a thread.
RECURSIVE ThreadsOf(_, _)
ThreadsOf(ps, i) ==
  IF i > Len(ps) THEN <<>> ELSE processes[ps[i]].Threads \o ThreadsOf(ps, i + 1)

ProfileRoots == RootsFrom(threads, ThreadsOf(p, 1), 1)

ProfileFrames == PreOrderAll(frames, ProfileRoots, 1)

Range(s) == {s[i] : i \in 1..Len(s)}

SelfWeights == [f \in 1..Len(frames) |-> frames[f].SelfWeightNs]

\* Frame f's children state more cumulative weight than f itself.
ChildrenExceed(f) == SumOver(origWeight, frames[f].Children, 1) > origWeight[f]

\* C1: whenever some frame of the call graph, at any depth, has children
\* whose cumulative weights sum to more than its own, ParseSample returns an
\* error and no profile: a returned profile has no such frame.
C1_NegativeSelfWeightFails ==
  pc = "done" => \A f \in Range(ProfileFrames) : ~ChildrenExceed(f)

\* C2: in a profile ParseSample returns, the final self weight of a frame
\* plus the final self weights of all its descendants is the cumulative
\* weight its line stated (hits * 1,000,000).
C2_SelfWeightRoundTrip ==
  pc = "done" =>
    \A f \in Range(ProfileFrames) :
      SumOver(SelfWeights, PreOrder(frames, f), 1) = origWeight[f]

(***************************************************************************)
(* Properties of the collapsed parser                                      *)
(***************************************************************************)
Returned == pc \in {"done", "error", "panic"}

\* Frame node is the index-th frame (0-based) of the chain of funs under
\* parent, and the rest of the chain hangs below it as only children.
RECURSIVE IsChain(_, _, _, _, _)
IsChain(node, parent, funs, index, count) ==
  /\ node # 0
  /\ frames[node].SymbolName = Str(funs[index + 1])
  /\ frames[node].Depth = index
  /\ frames[node].Parent = parent
  /\ IF index + 1 = Len(funs)
     THEN /\ frames[node].Children = <<>>
          /\ frames[node].SelfWeightNs = count
     ELSE /\ Len(frames[node].Children) = 1
          /\ frames[node].SelfWeightNs = 0
          /\ IsChain(frames[node].Children[1], node, funs, index + 1, count)

AllFormed == \A i \in 1..Len(lines) : lines[i].formed

\* C7: when every line is "f1;...;fN <count>", ParseProfile returns one
\* process ("", pid 0) with one thread ("") whose root frames are the lines'
\* stacks in input order, each a single chain: the i-th name at depth i as
\* the only child of the previous one, weight 0 but for the leaf, which
\* carries the count.
C7_CollapsedLinesBecomeChains ==
  (Returned /\ AllFormed) =>
    /\ pc = "done"
    /\ err = ""
    /\ Len(p) = 1
    /\ processes[p[1]].Name = "" /\ processes[p[1]].Pid = 0
    /\ Len(processes[p[1]].Threads) = 1
    /\ LET th == threads[processes[p[1]].Threads[1]]
       IN /\ th.Name = ""
          /\ Len(th.Frames) = Len(lines)
          /\ \A i \in 1..Len(lines) :
               IsChain(th.Frames[i], 0, lines[i].funs, 0, lines[i].count)
          /\ \A i, j \in 1..Len(lines) : i # j => th.Frames[i] # th.Frames[j]

\* Two identical two-frame stacks were parsed.
C7_Witness ==
  /\ pc = "done"
  /\ AllFormed
  /\ Len(lines) = 2
  /\ lines[1] = lines[2]
  /\ Len(lines[1].funs) = 2
  /\ lines[1].count = 13

\* The tail of the line after its last space does not parse as an integer.
NoCount(l) == ~l.formed /\ l.text # <<"7">>

\* C8: a line without a parseable trailing integer is skipped: ParseProfile
\* returns no error, the thread has one root frame per line that does have
\* a count, and every entry of the thread's root frames is a frame.
C8_UnparseableLineSkipped ==
  (Returned /\ \A i \in 1..Len(lines) : lines[i].formed \/ NoCount(lines[i])) =>
    /\ pc = "done"
    /\ err = ""
    /\ LET th == threads[processes[p[1]].Threads[1]]
       IN /\ Len(th.Frames) = Cardinality({i \in 1..Len(lines) : lines[i].formed})
          /\ \A i \in 1..Len(th.Frames) : th.Frames[i] # 0

\* C9: a profile the collapsed parser returns without error has no frame
\* with a negative self weight (every frame the parser made is in it).
C9_SelfWeightNeverNegative ==
  (pc = "done" /\ err = "") =>
    \A f \in 1..Len(frames) : frames[f].SelfWeightNs >= 0

(***************************************************************************)
(* Properties of the converter                                             *)
(***************************************************************************)
Tagged(fs, th, proc) ==
  [i \in 1..Len(fs) |-> [frame |-> fs[i], th |-> th, proc |-> proc]]

RECURSIVE WalkThreads(_, _)
WalkThreads(proc, i) ==
  IF i > Len(processes[proc].Threads) THEN <<>>
  ELSE Tagged(PreOrderAll(frames, threads[processes[proc].Threads[i]].Frames, 1),
              processes[proc].Threads[i], proc)
       \o WalkThreads(proc, i + 1)

RECURSIVE WalkProcesses(_)
WalkProcesses(i) ==
  IF i > Len(p) THEN <<>> ELSE WalkThreads(p[i], 1) \o WalkProcesses(i + 1)

\* Every frame of the tree with its thread and process: processes in
\* order, their threads in order, each thread's root frames in pre-order.
Walk == WalkProcesses(1)

HasWeight(e) == frames[e.frame].SelfWeightNs # 0

\* The frames with a self weight, in that order.
Sampled == SelectSeq(Walk, HasWeight)

\* Frame f and its ancestors, leaf to root.
RECURSIVE Ancestors(_)
Ancestors(f) == IF f = 0 THEN <<>> ELSE <<f>> \o Ancestors(frames[f].Parent)

SymbolNamesOf(fs) == [k \in 1..Len(fs) |-> frames[fs[k]].SymbolName]

\* The function names of a stack trace.
Names(locs) == [k \in 1..Len(locs) |-> locs[k].Function.Name]

Converted == pc = "converted"

\* The entries of the stack traces that stand for frames: the k-th entry
\* of the i-th sample.
FrameEntries ==
  {e \in [i : 1..Len(Sampled), k : 1..Len(frames)] :
     e.k <= Len(Ancestors(Sampled[e.i].frame))}

EntryFrame(e) == Ancestors(Sampled[e.i].frame)[e.k]

\* C3: two stack entries that stand for frames have the same location id
\* exactly when the frames have the same symbol name and are in the same
\* thread of the same process.
C3_LocationSharedIffSameSymbolAndThread ==
  Converted =>
    /\ Len(pprof.Sample) = Len(Sampled)
    /\ \A d, e \in FrameEntries :
         (pprof.Sample[d.i].Location[d.k].ID = pprof.Sample[e.i].Location[e.k].ID)
         <=> /\ frames[EntryFrame(d)].SymbolName = frames[EntryFrame(e)].SymbolName
             /\ Sampled[d.i].th = Sampled[e.i].th
             /\ Sampled[d.i].proc = Sampled[e.i].proc

\* C4: the samples are the frames with a non-zero self weight, one each, in
\* process order, thread order and pre-order, each with the frame's self
\* weight as its only value and the ids and names of the frame's thread and
\* process as labels.
C4_OneSamplePerWeightedFrameInPreOrder ==
  Converted =>
    LET sampled == Sampled
    IN /\ Len(pprof.Sample) = Len(sampled)
       /\ \A i \in 1..Len(sampled) :
            /\ pprof.Sample[i].Value = <<frames[sampled[i].frame].SelfWeightNs>>
            /\ pprof.Sample[i].Label =
                 [pid |-> ToString(processes[sampled[i].proc].Pid),
                  tid |-> ToString(threads[sampled[i].th].Tid),
                  process_name |-> processes[sampled[i].proc].Name,
                  thread_name |-> threads[sampled[i].th].Name]

\* A root frame without self weight whose child has one, then a second root
\* frame with a self weight, were converted.
C4_Witness ==
  /\ Converted
  /\ Len(frames) = 3
  /\ frames[1].SelfWeightNs = 0 /\ frames[1].Children = <<2>>
  /\ frames[2].SelfWeightNs # 0
  /\ frames[3].Parent = 0 /\ frames[3].SelfWeightNs # 0
  /\ Len(pprof.Sample) = 2

ThreadPseudoName(th) ==
  IF cfg.includeThreadAndProcessIds
  THEN threads[th].Name \o " [tid: 0x" \o Hex(threads[th].Tid) \o "]"
  ELSE threads[th].Name

ProcessPseudoName(proc) ==
  IF cfg.includeThreadAndProcessIds
  THEN processes[proc].Name \o " [pid: " \o ToString(processes[proc].Pid) \o "]"
  ELSE processes[proc].Name

\* C5: with both exclude flags false (and no annotations), the function
\* names of every sample's stack trace are the symbol names of the sampled
\* frame and its ancestors, leaf to root, then the thread pseudo-frame's
\* name, then the process pseudo-frame's, named with or without ids as
\* configured.
C5_StackIsBranchThenThreadThenProcess ==
  (/\ Converted
   /\ ~cfg.excludeProcessesFromStack
   /\ ~cfg.excludeThreadsFromStack
   /\ DOMAIN cfg.annotations = {}) =>
    /\ Len(pprof.Sample) = Len(Sampled)
    /\ \A i \in 1..Len(Sampled) :
         Names(pprof.Sample[i].Location) =
           SymbolNamesOf(Ancestors(Sampled[i].frame))
           \o <<ThreadPseudoName(Sampled[i].th), ProcessPseudoName(Sampled[i].proc)>>

RemoveAt(s, k) == SubSeq(s, 1, k - 1) \o SubSeq(s, k + 1, Len(s))

\* Profile q has the samples of the converted profile, each without the
\* stack entry that is fromEnd entries before its last.
SamplesWithoutEntry(q, fromEnd) ==
  /\ Len(q.Sample) = Len(pprof.Sample)
  /\ \A i \in 1..Len(pprof.Sample) :
       /\ q.Sample[i].Value = pprof.Sample[i].Value
       /\ q.Sample[i].Label = pprof.Sample[i].Label
       /\ Names(q.Sample[i].Location) =
            RemoveAt(Names(pprof.Sample[i].Location),
                     Len(pprof.Sample[i].Location) - fromEnd)

\* C6: converting the same tree with exclude-processes-from-stack
\* (exclude-threads-from-stack) turned on gives the same samples, values
\* and labels, each stack trace having the names of the original one
\* without the process (thread) pseudo-frame's entry.
C6_ExcludeRemovesOnlyThePseudoFrame ==
  Converted =>
    /\ ~cfg.excludeProcessesFromStack =>
         SamplesWithoutEntry(
           TimeProfileToPprof([cfg EXCEPT !.excludeProcessesFromStack = TRUE]), 0)
    /\ ~cfg.excludeThreadsFromStack =>
         SamplesWithoutEntry(
           TimeProfileToPprof([cfg EXCEPT !.excludeThreadsFromStack = TRUE]),
           IF cfg.excludeProcessesFromStack THEN 0 ELSE 1)

\* The process labels that end with an annotation.
AnnotatedLabels ==
  {base \o " [" \o "note" \o "]" :
     base \in ProcessNames
              \cup {n \o " [pid: " \o ToString(pid) \o "]" : n \in ProcessNames, pid \in Pids}}

\* C10: the process pseudo-frame's name ends with the annotation exactly
\* when the process's pid is not 0 and the annotation map has an entry for
\* it.
C10_AnnotatedIffNonZeroPidInMap ==
  (Converted /\ ~cfg.excludeProcessesFromStack) =>
    /\ Len(pprof.Sample) = Len(Sampled)
    /\ \A i \in 1..Len(Sampled) :
         LET locs == pprof.Sample[i].Location
             pid == processes[Sampled[i].proc].Pid
         IN (locs[Len(locs)].Function.Name \in AnnotatedLabels)
            <=> (pid # 0 /\ pid \in DOMAIN cfg.annotations)

\* The pids of the annotation map that no process of the tree has.
AbsentPids == DOMAIN cfg.annotations \ {processes[p[i]].Pid : i \in 1..Len(p)}

Without(m, pid) == [k \in DOMAIN m \ {pid} |-> m[k]]

\* Profile q has the samples and the tables of the converted profile.
SameProfile(q) ==
  /\ q.panic = pprof.panic
  /\ q.Sample = pprof.Sample
  /\ q.Location = pprof.Location
  /\ q.Function = pprof.Function

UnusedAdvisory(pid) == [kind |-> "unused", pid |-> pid]

IgnoredAdvisory == [kind |-> "ignored", pid |-> 0]

\* C11 as stated: with an annotation for a pid no process has, the
\* conversion does not fail, the profile is the one converted without that
\* entry, and the advisories differ by exactly the unused-annotation
\* advisory of that pid.
C11_AbsentPidOnlyAddsUnusedAdvisory ==
  Converted =>
    \A pid \in AbsentPids :
      LET q == TimeProfileToPprof([cfg EXCEPT !.annotations = Without(@, pid)])
      IN /\ ~pprof.panic
         /\ SameProfile(q)
         /\ q.warn \subseteq pprof.warn
         /\ pprof.warn \ q.warn = {UnusedAdvisory(pid)}

\* C11 amended: with an annotation for a pid no process has, the conversion
\* does not fail and the profile is the one converted without that entry;
\* the advisories differ by the unused-annotation advisory of that pid and,
\* only when processes are excluded from the stack and the entry is the
\* map's only one, by the annotations-ignored advisory.
C11_AbsentPidOnlyAddsAdvisories ==
  Converted =>
    \A pid \in AbsentPids :
      LET q == TimeProfileToPprof([cfg EXCEPT !.annotations = Without(@, pid)])
      IN /\ ~pprof.panic
         /\ SameProfile(q)
         /\ q.warn \subseteq pprof.warn
         /\ UnusedAdvisory(pid) \in pprof.warn \ q.warn
         /\ pprof.warn \ q.warn \subseteq {UnusedAdvisory(pid), IgnoredAdvisory}
         /\ (IgnoredAdvisory \in pprof.warn \ q.warn)
            <=> (cfg.excludeProcessesFromStack /\ DOMAIN cfg.annotations = {pid})

\* A tree whose only process has pid 1 was converted, with its process
\* pseudo-frame, under annotations for pids 0 and 1.
C11_Witness ==
  /\ Converted
  /\ ~cfg.excludeProcessesFromStack
  /\ DOMAIN cfg.annotations = {0, 1}
  /\ AbsentPids = {0}
  /\ Len(pprof.Sample) > 0

(***************************************************************************)
(* More properties of the sample parser                                    *)
(***************************************************************************)
\* C12: ParseSample never holds more than one process, and as long as no
\* Process line was read it is still reading the header or has returned an
\* error: it does not get past "Call graph" without a process, by a panic
\* or otherwise.
C12_ExactlyOneProcessLine ==
  /\ Len(p) <= 1
  /\ Len(p) = 0 => pc \in {"header", "error"}

\* The warning parseSampleRate logs for an "Analysis of sampling" line.
PeriodWarning(line) == [kind |-> "period", period |-> line.period, unit |-> line.unit]

\* C16: the factor is 1,000,000 whatever the period line states, every
\* "Analysis of sampling" line read that states another period than
\* 1 millisecond (another value or another unit) has raised its warning,
\* and no such line has made the parser fail.
C16_OtherPeriodWarnsAndKeepsFactor ==
  /\ sampleRate = 1000000
  /\ \A i \in 1..Len(lines) :
       (lines[i].kind = "analysis"
          /\ (lines[i].period # "1" \/ lines[i].unit # "millisecond"))
         => PeriodWarning(lines[i]) \in warnings

(***************************************************************************)
(* Properties of the deep-copy parser                                      *)
(***************************************************************************)
LineDepth(line) == IF line.nfields = 3 THEN line.indent - 1 ELSE line.indent

IsFrameLine(line) == ~line.blank /\ ~line.header /\ line.nfields \in {3, 4}

\* The line with a well-formed label in place of a depth-0 label processRe
\* does not match and of a depth-1 label threadRe does not match.
WellFormed(line) ==
  IF IsFrameLine(line) /\ LineDepth(line) = 0 /\ ~processRe(line.name).match
  THEN [line EXCEPT !.name = "P (1)"]
  ELSE IF IsFrameLine(line) /\ LineDepth(line) = 1 /\ ~threadRe(line.name).match
  THEN [line EXCEPT !.name = "T  0x1"]
  ELSE line

WellFormedLines == [i \in 1..Len(lines) |-> WellFormed(lines[i])]

\* C13: the parser is where it would be had every depth-0 and depth-1
\* label been well formed: same outcome (no error of its own), same frames
\* with the same parents, children, depths and weights, same threads of the
\* same processes with the same root frames; a process or thread whose
\* label did not match has the whole label as its name, id 0, and a warning
\* was raised for it.
C13_MalformedLabelFallsBack ==
  LET alt == deepCopyRun(deepCopyStart, WellFormedLines, 1)
  IN /\ pc # "done" => alt.pc = pc
     /\ alt.err = err
     /\ alt.frames = frames
     /\ alt.p = p
     /\ alt.currentProcess = currentProcess
     /\ alt.currentThread = currentThread
     /\ alt.lastFrame = lastFrame
     /\ Len(alt.processes) = Len(processes)
     /\ Len(alt.threads) = Len(threads)
     /\ \A i \in 1..Len(processes) :
          /\ alt.processes[i].Threads = processes[i].Threads
          /\ \/ alt.processes[i] = processes[i]
             \/ /\ processes[i].Pid = 0
                /\ ~processRe(processes[i].Name).match
                /\ processes[i].Name \in ProcessLabels \cup SymbolLabels
                /\ [kind |-> "process", text |-> processes[i].Name] \in warnings
     /\ \A t \in 1..Len(threads) :
          /\ alt.threads[t].Frames = threads[t].Frames
          /\ \/ alt.threads[t] = threads[t]
             \/ /\ threads[t].Tid = 0
                /\ ~threadRe(threads[t].Name).match
                /\ threads[t].Name \in ThreadLabels \cup SymbolLabels
                /\ [kind |-> "thread", text |-> threads[t].Name] \in warnings

\* A profile was returned whose process and thread labels did not match and
\* whose thread has a root frame with a child.
C13_Witness ==
  /\ pc = "done"
  /\ Len(processes) = 1 /\ processes[1].Name = "P (x)" /\ processes[1].Pid = 0
  /\ Len(threads) = 1 /\ threads[1].Name = "T 0x1" /\ threads[1].Tid = 0
  /\ Len(frames) = 2 /\ frames[1].Children = <<2>>

\* The frames from f up its Parent references.
RECURSIVE ParentChain(_, _)
ParentChain(fr, f) == IF f = 0 THEN {} ELSE {f} \cup ParentChain(fr, fr[f].Parent)

\* The parser before its last line.
BeforeLastLine == deepCopyRun(deepCopyStart, SubSeq(lines, 1, Len(lines) - 1), 1)

\* line is a frame line read in state s while a frame is open, of a depth
\* not above lastFrame's that no frame of lastFrame's parent chain is one
\* above of.
NoAncestorFor(s, line) ==
  /\ s.pc = "parse" /\ s.currentProcess # 0 /\ s.currentThread # 0 /\ s.lastFrame # 0
  /\ IsFrameLine(line) /\ parseLine(line).err = ""
  /\ LineDepth(line) \notin {0, 1, 2}
  /\ LineDepth(line) <= s.frames[s.lastFrame].Depth
  /\ \A a \in ParentChain(s.frames, s.frames[s.lastFrame].Parent) :
       s.frames[a].Depth # LineDepth(line) - 1

\* C19: a frame line whose depth matches no ancestor of lastFrame makes
\* the parser return an error; the walk up the parents never steps past a
\* root frame.
C19_NoAncestorIsAnError ==
  /\ pc # "panic"
  /\ (Len(lines) > 0 /\ NoAncestorFor(BeforeLastLine, lines[Len(lines)]))
       => (pc = "error" /\ err # "")

(***************************************************************************)
(* Properties of the two parsers that rebuild the tree from depths         *)
(***************************************************************************)
\* The depth of a thread's root frames in the parser that takes the step.
RootDepth == IF pc = "parse" THEN 2 ELSE 1

\* The step reads a frame line while lastFrame is set and attaches its
\* frame in the current thread.
AttachesFrame ==
  /\ pc \in {"callgraph", "parse"}
  /\ Len(frames') = Len(frames) + 1
  /\ lastFrame # 0
  /\ currentThread # 0 /\ currentThread' = currentThread

\* The step appends the new frame as the last child of frame a.
AsLastChildOf(a) ==
  /\ frames'[Len(frames')].Parent = a
  /\ frames'[a].Children = Append(frames[a].Children, Len(frames'))
  /\ threads' = threads

\* The step appends the new frame as a root frame of the current thread.
AsRootFrame ==
  /\ frames'[Len(frames')].Parent = 0
  /\ threads'[currentThread].Frames = Append(threads[currentThread].Frames, Len(frames'))
  /\ \A a \in 1..Len(frames) : frames'[a].Children = frames[a].Children

\* The step appends the new frame below lastFrame's ancestor of depth d - 1.
BelowAncestor(d) ==
  \E a \in ParentChain(frames, frames[lastFrame].Parent) :
    frames[a].Depth = d - 1 /\ AsLastChildOf(a)

AttachedAsClaimed(d, L) ==
  /\ d = L + 1 => AsLastChildOf(lastFrame)
  /\ (d <= L /\ d = RootDepth) => AsRootFrame
  /\ (d <= L /\ d # RootDepth) => BelowAncestor(d)
  /\ lastFrame' = Len(frames')

AttachedRootFirst(d, L) ==
  /\ d = RootDepth => AsRootFrame
  /\ (d # RootDepth /\ d = L + 1) => AsLastChildOf(lastFrame)
  /\ (d # RootDepth /\ d <= L) => BelowAncestor(d)
  /\ lastFrame' = Len(frames')

\* C20 as stated: a frame of depth d read while lastFrame has depth L
\* becomes the last child of lastFrame when d = L + 1, a new root frame of
\* the thread when d <= L is the root-frame depth, the last child of
\* lastFrame's ancestor of depth d - 1 otherwise; its parent is the node it
\* was attached to and it becomes lastFrame.
C20_AttachedByDepth ==
  [][AttachesFrame =>
       AttachedAsClaimed(frames'[Len(frames')].Depth, frames[lastFrame].Depth)]_vars

\* C20, amended: a frame of the root-frame depth becomes a new root frame
\* of the thread whatever lastFrame's depth; a frame of another depth d
\* becomes the last child of lastFrame when d = L + 1 and the last child of
\* lastFrame's ancestor of depth d - 1 when d <= L; its parent is the node
\* it was attached to and it becomes lastFrame.
C20_AttachedByDepthRootFirst ==
  [][AttachesFrame =>
       AttachedRootFirst(frames'[Len(frames')].Depth, frames[lastFrame].Depth)]_vars

\* The sample parser has attached a frame two levels up lastFrame's
\* parent chain, after a root frame read right after the thread line.
C20_Witness ==
  /\ pc = "callgraph"
  /\ Len(frames) = 5
  /\ frames[1].Depth = 0 /\ frames[2].Depth = 1 /\ frames[2].Parent = 0
  /\ frames[3].Parent = 2 /\ frames[4].Parent = 3
  /\ frames[5].Parent = 2 /\ frames[2].Children = <<3, 5>>
  /\ lastFrame = 5

\* The step reads one more line: the line.
ReadsLine == Len(lines') = Len(lines) + 1
LineRead == lines'[Len(lines')]

\* The depth of a frame line of the parser that takes the step; no depth
\* for a line the parser cannot split.
HasDepth(line) ==
  IF pc = "parse" THEN IsFrameLine(line) /\ parseLine(line).err = ""
  ELSE line.kind = "call" /\ line.match

DepthOf(line) ==
  IF pc = "parse" THEN LineDepth(line) ELSE Len(line.prefix) \div 2

\* The depth of the line that opens a thread.
ThreadDepth == RootDepth - 1

\* The step reads a frame line (not a process or thread line) inside a
\* thread.
ReadsFrameLine ==
  /\ pc \in {"callgraph", "parse"}
  /\ ReadsLine
  /\ HasDepth(LineRead)
  /\ DepthOf(LineRead) \notin 0..ThreadDepth
  /\ currentThread # 0
  /\ pc = "parse" => currentProcess # 0

\* No frame was read yet in the thread: lastFrame is none, or the thread
\* line's own frame.
AtThreadStart == lastFrame = 0 \/ frames[lastFrame].Depth = ThreadDepth

ReturnsError ==
  /\ pc' = "error" /\ err' # ""
  /\ frames' = frames /\ threads' = threads /\ lastFrame' = lastFrame

\* C21: a frame line more than one level deeper than lastFrame, or a first
\* frame of a thread that is not one level below the thread line, makes
\* the parser return an error and attaches nothing.
C21_DepthGrowsByOne ==
  [][(ReadsFrameLine
        /\ \/ AtThreadStart /\ DepthOf(LineRead) # RootDepth
           \/ lastFrame # 0 /\ DepthOf(LineRead) > frames[lastFrame].Depth + 1)
       => ReturnsError]_vars

\* The deep-copy parser has refused a frame two levels below lastFrame.
C21_Witness ==
  /\ pc = "error" /\ err = "Skip children somehow?"
  /\ Len(frames) = 1 /\ lastFrame = 1 /\ frames[1].Depth = 2
  /\ LineDepth(lines[Len(lines)]) = 4

\* C22: every frame that has a parent is one level below it, every root
\* frame of a thread has no parent, and the walk up from lastFrame's parent
\* ends within lastFrame.depth steps.
C22_DepthIsParentDepthPlusOne ==
  /\ \A f \in 1..Len(frames) :
       frames[f].Parent # 0 => frames[f].Depth = frames[frames[f].Parent].Depth + 1
  /\ \A t \in 1..Len(threads) : \A k \in 1..Len(threads[t].Frames) :
       frames[threads[t].Frames[k]].Parent = 0
  /\ lastFrame # 0 =>
       Cardinality(ParentChain(frames, frames[lastFrame].Parent)) <= frames[lastFrame].Depth

\* A frame was attached two levels up a chain of three.
C22_Witness ==
  /\ Len(frames) >= 4 /\ lastFrame = Len(frames)
  /\ frames[lastFrame].Parent # 0
  /\ frames[lastFrame].Parent < lastFrame - 2
  /\ Cardinality(ParentChain(frames, lastFrame - 1)) >= 3

\* The deep-copy parser reads a line of depth d.
ReadsDepth(d) ==
  /\ pc = "parse"
  /\ ReadsLine
  /\ HasDepth(LineRead)
  /\ DepthOf(LineRead) = d

\* The step opens a new process: no thread, no lastFrame.
StartsProcess ==
  /\ pc' = "parse"
  /\ Len(processes') = Len(processes) + 1
  /\ p' = Append(p, Len(processes'))
  /\ currentProcess' = Len(processes')
  /\ currentThread' = 0
  /\ lastFrame' = 0

\* The step opens a new thread of the current process: no lastFrame.
StartsThread ==
  /\ pc' = "parse"
  /\ Len(threads') = Len(threads) + 1
  /\ processes'[currentProcess].Threads
       = Append(processes[currentProcess].Threads, Len(threads'))
  /\ currentProcess' = currentProcess
  /\ currentThread' = Len(threads')
  /\ lastFrame' = 0

\* C23 as stated: in whatever state it is read, a line of depth 0 starts
\* a new process and a line of depth 1 a new thread of the current
\* process, and lastFrame is none afterwards.
C23_HeaderLineStartsContext ==
  [][/\ ReadsDepth(0) => StartsProcess
     /\ (ReadsDepth(1) /\ currentProcess # 0) => StartsThread]_vars

\* C23, amended: a line of depth 0 starts a new process when no process
\* is open and is an error while one is open; a line of depth 1 starts a
\* new thread of the open process, also while a thread is open; lastFrame
\* is none after a started context.
C23_HeaderLineStartsContextOrFails ==
  [][/\ (ReadsDepth(0) /\ currentProcess = 0) => StartsProcess
     /\ (ReadsDepth(0) /\ currentProcess # 0) => ReturnsError
     /\ (ReadsDepth(1) /\ currentProcess # 0) => StartsThread]_vars

\* A second thread was opened right after a frame of the first one.
C23_Witness ==
  /\ pc = "parse"
  /\ Len(lines) = 4 /\ \A i \in 1..4 : IsFrameLine(lines[i])
  /\ Len(threads) = 2 /\ currentThread = 2
  /\ Len(frames) = 1
  /\ lastFrame = 0

(***************************************************************************)
(* Properties of the three parsers                                         *)
(***************************************************************************)
\* The parser of the run, by the lines it has read.
FormatOfRun ==
  IF lines = <<>> THEN "none"
  ELSE IF "kind" \in DOMAIN lines[1] THEN "sample"
  ELSE IF "blank" \in DOMAIN lines[1] THEN "deepcopy"
  ELSE "collapsed"

\* The root frames of the returned profile, nil entries left out.
RootFrames ==
  UNION {{threads[t].Frames[k] : k \in 1..Len(threads[t].Frames)} : t \in 1..Len(threads)}
    \ {0}

ReturnedProfile == pc = "done"

\* C24 as stated: in a returned profile every frame has depth >= 0 and
\* every root frame has depth 1.
C24_RootFramesHaveDepthOne ==
  ReturnedProfile =>
    /\ \A f \in 1..Len(frames) : frames[f].Depth >= 0
    /\ \A f \in RootFrames : frames[f].Depth = 1

\* The depth each parser gives the root frames of a thread.
RootDepthOf(format) ==
  CASE format = "sample" -> 1
    [] format = "deepcopy" -> 2
    [] format = "collapsed" -> 0

\* C24, amended: in a returned profile every frame has depth >= 0 and
\* every root frame has the root depth of its format: 1 in the sample
\* format, 2 in the deep-copy format, 0 in the collapsed format.
C24_RootFramesHaveFormatDepth ==
  (ReturnedProfile /\ RootFrames # {}) =>
    /\ \A f \in 1..Len(frames) : frames[f].Depth >= 0
    /\ \A f \in RootFrames : frames[f].Depth = RootDepthOf(FormatOfRun)

\* The deep-copy parser returned a root frame with a child.
C24_Witness ==
  /\ ReturnedProfile
  /\ FormatOfRun = "deepcopy"
  /\ Len(frames) = 2
  /\ RootFrames = {1}
  /\ frames[2].Parent = 1

\* What a line of the run is to its parser: the line of a process, of a
\* thread, of a frame, or none of these.
LineKind(line) ==
  IF FormatOfRun = "sample"
  THEN IF line.kind # "call" \/ ~line.match THEN "other"
       ELSE IF Len(line.prefix) \div 2 = 0 THEN "thread"
       ELSE "frame"
  ELSE IF ~IsFrameLine(line) \/ parseLine(line).err # "" THEN "other"
       ELSE IF LineDepth(line) = 0 THEN "process"
       ELSE IF LineDepth(line) = 1 THEN "thread"
       ELSE "frame"

LineDepthOfRun(line) ==
  IF FormatOfRun = "sample" THEN Len(line.prefix) \div 2 ELSE LineDepth(line)

\* The lines as a tree-less listing: per process its number of threads,
\* per thread the numbers of its frame lines in input order, and the name
\* and depth of every line that makes a frame (in the sample format the
\* thread line makes one too), numbered in input order.
NoListing == [procs |-> <<>>, th |-> <<>>, fr |-> <<>>]

Listed(acc, line, kind) ==
  CASE kind = "process" -> [acc EXCEPT !.procs = Append(@, 0)]
    [] kind = "thread" ->
         [acc EXCEPT !.procs = IF FormatOfRun = "sample" THEN @
                               ELSE [@ EXCEPT ![Len(@)] = @ + 1],
                     !.th = Append(@, <<>>),
                     !.fr = IF FormatOfRun = "sample"
                            THEN Append(@, [name |-> line.name, depth |-> 0])
                            ELSE @]
    [] kind = "frame" ->
         [acc EXCEPT !.th = [@ EXCEPT ![Len(@)] = Append(@, Len(acc.fr) + 1)],
                     !.fr = Append(@, [name |-> line.name, depth |-> LineDepthOfRun(line)])]
    [] OTHER -> acc

RECURSIVE Listing(_, _)
Listing(i, acc) ==
  IF i > Len(lines) THEN acc
  ELSE Listing(i + 1, Listed(acc, lines[i], LineKind(lines[i])))

\* How many times frame f is attached: as a root frame of a thread or as a
\* child of a frame.
Attachments(f) ==
  Cardinality({e \in [t : 1..Len(threads), k : 1..Len(frames)] :
                 e.k <= Len(threads[e.t].Frames) /\ threads[e.t].Frames[e.k] = f})
  + Cardinality({e \in [g : 1..Len(frames), k : 1..Len(frames)] :
                   e.k <= Len(frames[e.g].Children) /\ frames[e.g].Children[e.k] = f})

RECURSIVE ThreadsInOrder(_)
ThreadsInOrder(i) ==
  IF i > Len(p) THEN <<>> ELSE processes[p[i]].Threads \o ThreadsInOrder(i + 1)

\* C30: in an accepted run the frames are the frame lines in input order
\* with their names and depths, each thread lists its frame lines in
\* pre-order, every frame line is attached exactly once, and the threads
\* and processes are in input order.
C30_TreeListsTheLinesInOrder ==
  (pc = "done" /\ FormatOfRun \in {"sample", "deepcopy"}) =>
    \E e \in {Listing(1, NoListing)} :
      /\ Len(frames) = Len(e.fr)
      /\ \A f \in 1..Len(frames) :
           /\ frames[f].SymbolName = e.fr[f].name
           /\ frames[f].Depth = e.fr[f].depth
           /\ Attachments(f) = IF FormatOfRun = "sample" /\ e.fr[f].depth = 0 THEN 0 ELSE 1
      /\ Len(threads) = Len(e.th)
      /\ \A t \in 1..Len(threads) : PreOrderAll(frames, threads[t].Frames, 1) = e.th[t]
      /\ p = [i \in 1..Len(processes) |-> i]
      /\ ThreadsInOrder(1) = [t \in 1..Len(threads) |-> t]
      /\ FormatOfRun = "deepcopy" =>
           /\ Len(processes) = Len(e.procs)
           /\ \A i \in 1..Len(processes) : Len(processes[i].Threads) = e.procs[i]

\* The sample parser returned two threads, the first with a root frame, a
\* child and a second root frame.
C30_Witness ==
  /\ pc = "done"
  /\ FormatOfRun = "sample"
  /\ Len(threads) = 2
  /\ Len(frames) = 5
  /\ threads[1].Frames = <<2, 4>>
  /\ frames[2].Children = <<3>>
  /\ threads[2].Frames = <<>>

(***************************************************************************)
(* Properties of the converter's tables                                    *)
(***************************************************************************)
\* C14: the returned profile is a function of the tree and the options,
\* the order of its tables included: the location and function tables list
\* their entries in one fixed order, the order of their ids (first use).
C14_TablesInOneFixedOrder ==
  Converted =>
    /\ \A i \in 1..Len(pprof.Location) : pprof.Location[i].ID = i
    /\ \A i \in 1..Len(pprof.Function) : pprof.Function[i].ID = i

(***************************************************************************)
(* Properties of the converter's ids                                       *)
(***************************************************************************)
\* The locations the walk asked for, in the order it asked: the stack
\* traces of the samples from the i-th on, one after the other.
RECURSIVE UsesFrom(_)
UsesFrom(i) ==
  IF i > Len(pprof.Sample) THEN <<>>
  ELSE pprof.Sample[i].Location \o UsesFrom(i + 1)

Max(S) == IF S = {} THEN 0 ELSE CHOOSE n \in S : \A m \in S : m <= n

\* ids, a sequence of ids in order of use, numbers them 1, 2, ... by first
\* use.
InFirstUseOrder(ids) ==
  \A k \in 1..Len(ids) : ids[k] <= 1 + Max({ids[j] : j \in 1..(k - 1)})

LocationIDs == {pprof.Location[k].ID : k \in DOMAIN pprof.Location}
FunctionIDs == {pprof.Function[n].ID : n \in DOMAIN pprof.Function}

\* C17: the location ids are exactly 1..N and the function ids exactly
\* 1..M, one per table entry, and in each table an entry first used earlier
\* in the walk has the smaller id.
C17_IdsSequentialInFirstUseOrder ==
  Converted =>
    /\ LocationIDs = 1..Cardinality(DOMAIN pprof.Location)
    /\ FunctionIDs = 1..Cardinality(DOMAIN pprof.Function)
    /\ \E uses \in {UsesFrom(1)} :
         /\ {uses[k] : k \in 1..Len(uses)}
              = {pprof.Location[k] : k \in DOMAIN pprof.Location}
         /\ InFirstUseOrder([k \in 1..Len(uses) |-> uses[k].ID])
         /\ InFirstUseOrder([k \in 1..Len(uses) |-> uses[k].Function.ID])

\* Two samples; the second one uses a location of the first again, after a
\* location of its own.
C17_Witness ==
  /\ Converted
  /\ Len(pprof.Sample) = 2
  /\ Cardinality(DOMAIN pprof.Location) >= 4
  /\ Cardinality(DOMAIN pprof.Function) >= 3
  /\ Len(pprof.Sample[1].Location) = Len(pprof.Sample[2].Location)
  /\ \E k \in 2..Len(pprof.Sample[2].Location) :
       /\ pprof.Sample[2].Location[k] = pprof.Sample[1].Location[k]
       /\ pprof.Sample[2].Location[1].ID > pprof.Sample[2].Location[k].ID

\* C18: no two functions of the table have the same name, every location
\* references a function of the table, and two locations that show the
\* same name reference the same function, whatever their thread and
\* process.
C18_FunctionsDeduplicatedByName ==
  Converted =>
    /\ \A m, n \in DOMAIN pprof.Function :
         pprof.Function[m].Name = pprof.Function[n].Name => m = n
    /\ \E uses \in {UsesFrom(1)} :
         \E locs \in {{uses[k] : k \in 1..Len(uses)}
                        \cup {pprof.Location[k] : k \in DOMAIN pprof.Location}} :
           /\ \A l \in locs :
                \E n \in DOMAIN pprof.Function : pprof.Function[n] = l.Function
           /\ \A l, m \in locs :
                l.Function.Name = m.Function.Name => l.Function = m.Function

\* Frames of one name in two threads of different processes: two locations,
\* one function.
C18_Witness ==
  /\ Converted
  /\ Len(pprof.Sample) = 2
  /\ pprof.Sample[1].Label.pid # pprof.Sample[2].Label.pid
  /\ pprof.Sample[1].Location[1] # pprof.Sample[2].Location[1]
  /\ pprof.Sample[1].Location[1].Function = pprof.Sample[2].Location[1].Function

\* The label of the process pseudo-frame: the name, with the pid when ids
\* are included, with the annotation of a non-zero pid the map has.
ProcessPseudoLabel(proc) ==
  IF processes[proc].Pid # 0 /\ processes[proc].Pid \in DOMAIN cfg.annotations
  THEN ProcessPseudoName(proc) \o " [" \o cfg.annotations[processes[proc].Pid] \o "]"
  ELSE ProcessPseudoName(proc)

\* C28: in every sample whose stack has the process pseudo-frame the last
\* entry's function is named with the process label; the pseudo-frame
\* shares no location with a frame or a thread pseudo-frame.
C28_ProcessPseudoFrameHasItsOwnLocation ==
  (Converted /\ ~cfg.excludeProcessesFromStack) =>
    \E sampled \in {Sampled} :
      /\ Len(pprof.Sample) = Len(sampled)
      /\ \A i \in 1..Len(sampled) :
           /\ pprof.Sample[i].Location[Len(pprof.Sample[i].Location)].Function.Name
                = ProcessPseudoLabel(sampled[i].proc)
           /\ \A k \in 1..(Len(pprof.Sample[i].Location) - 1) :
                pprof.Sample[i].Location[k]
                  # pprof.Sample[i].Location[Len(pprof.Sample[i].Location)]

\* C29: the unused-annotation advisory names no non-zero pid that a
\* process of the tree has, whatever the options and the self weights.
C29_UnusedAdvisoryNamesOnlyAbsentPids ==
  Converted =>
    \A w \in pprof.warn :
      (w.kind = "unused" /\ w.pid # 0) =>
        \A i \in 1..Len(p) : processes[p[i]].Pid # w.pid

(***************************************************************************)
(* Properties of main                                                      *)
(***************************************************************************)
\* C15: a run that ended otherwise than by returning from main left no
\* output file.
C15_FailedRunLeavesNoOutputFile ==
  (pc = "exited" /\ run.exit # "ok") => run.file = "absent"

\* C25: the input file and the output file are each acquired at most once,
\* and when the process has ended every one that was acquired has been
\* released by its Close call.
C25_AcquiredOnceReleasedOnEveryExit ==
  /\ run.opens <= 1 /\ run.creates <= 1
  /\ pc = "exited" =>
       /\ run.input = "file" => run.inputClosed
       /\ run.out # "open"

\* The value is one Set has to refuse: no colon, a pid that is not a
\* number, or a pid the map m has already.
Refused(m, value) ==
  \/ ~value.colon
  \/ ParseUint(value.pid).err # ""
  \/ ParseUint(value.pid).n \in DOMAIN m

\* C26: Set returns an error and leaves the map as it is for a value
\* without colon, with a non-numeric pid or with a pid already in the map,
\* and never crashes; for any other value the map gains the one entry
\* pid -> text.
C26_SetRefusesOrAddsOneEntry ==
  [][(pc = "flags" /\ Len(run'.pidTags) = Len(run.pidTags) + 1) =>
       \E value \in {run'.pidTags[Len(run'.pidTags)]} :
         IF Refused(run.processAnnotations, value)
         THEN /\ run'.exit = "usage"
              /\ run'.processAnnotations = run.processAnnotations
         ELSE /\ run'.exit = "running"
              /\ run'.processAnnotations
                   = (ParseUint(value.pid).n :> value.text) @@ run.processAnnotations]_vars

(***************************************************************************)
(* Properties of the sample parser's call graph                            *)
(***************************************************************************)
\* C27: a frame line of depth >= 1 read when no thread line was read (no
\* current thread, no lastFrame) makes ParseSample return an error; it
\* does not crash.
C27_FrameBeforeThreadIsAnError ==
  [][(pc = "callgraph" /\ ReadsLine /\ HasDepth(LineRead) /\ DepthOf(LineRead) >= 1
        /\ currentThread = 0 /\ lastFrame = 0)
       => ReturnsError]_vars

====
